---- MODULE Spec2Model ----
(***************************************************************************)
(* RoostaBoosta: the resumable HTTP/1.1 message serializer                 *)
(* (HTTPSerializationHandle.ipp) and the WifiClient request/response       *)
(* protocol (WifiClient.cpp), as state machines.                           *)
(*                                                                         *)
(* A byte is a one-character string; "CR", "LF" and "NUL" stand for the    *)
(* bytes 13, 10 and 0.  A text is a sequence of bytes.                     *)
(***************************************************************************)
EXTENDS Integers, Sequences, FiniteSets, TLC

----------------------------------------------------------------------------
(* Bounds of the model *)

\* largest chunk the serializer harness hands to serialize() in one call
MaxChunk == 3
\* size of the protocol's scratch buffer send_buffer_
SendBufferSize == 25
\* number of threads that use one protocol instance
NumThreads == 2
\* static req_id of WifiClient::Request is capped by the guards at this value
MaxReqId == 2
\* bytes the serial link buffers at most
MaxRx == 1
\* drop is not called from outside a promise once req_sem_ counts this much
MaxSem == 2
\* digits the longest group of a reply to connect holds
MaxDigits == 4
\* bytes the longest music file holds
MaxFileLen == 5
\* samples in one bank of audio_buf, MUSIC_PLAYER_AUDIO_BUF_BANK_SIZE
BankSize == 2

----------------------------------------------------------------------------
(* Bytes and texts *)

CR == "CR"
LF == "LF"
NUL == "NUL"
CRLF == <<CR, LF>>
SP == <<" ">>

Min(a, b) == IF a < b THEN a ELSE b

\* ErrorStatus{} : the default code MBED_SUCCESS, read as the status that
\* tests false in `operator bool` (status < 0).  The status word itself is
\* built by MAKE_MBED_ERROR of mbed_error.h, which is outside src/; every
\* result below is relative to this reading of the default status.
OK == "OK"
EINVAL == "EINVAL"
ENODATA == "ENODATA"

----------------------------------------------------------------------------
(* Header field labels, in declaration order *)

RequestHeaderLabels ==
  << <<"A", "c", "c", "e", "p", "t", ":", " ">>,
     <<"A", "c", "c", "e", "p", "t", "-", "C", "h", "a", "r", "s", "e", "t", ":", " ">>,
     <<"A", "c", "c", "e", "p", "t", "-", "E", "n", "c", "o", "d", "i", "n", "g", ":", " ">>,
     <<"A", "c", "c", "e", "p", "t", "-", "L", "a", "n", "g", "u", "a", "g", "e", ":", " ">>,
     <<"A", "u", "t", "h", "o", "r", "i", "z", "a", "t", "i", "o", "n", ":", " ">>,
     <<"E", "x", "p", "e", "c", "t", ":", " ">>,
     <<"F", "r", "o", "m", ":", " ">>,
     <<"H", "o", "s", "t", ":", " ">>,
     <<"I", "f", "-", "M", "a", "t", "c", "h", ":", " ">>,
     <<"I", "f", "-", "M", "o", "d", "i", "f", "i", "e", "d", "-", "S", "i", "n", "c", "e", ":", " ">>,
     <<"I", "f", "-", "N", "o", "n", "e", "-", "M", "a", "t", "c", "h", ":", " ">>,
     <<"I", "f", "-", "R", "a", "n", "g", "e", ":", " ">>,
     <<"I", "f", "-", "U", "n", "m", "o", "d", "i", "f", "i", "e", "d", "-", "S", "i", "n", "c", "e", ":", " ">>,
     <<"M", "a", "x", "-", "F", "o", "r", "w", "a", "r", "d", "s", ":", " ">>,
     <<"P", "r", "o", "x", "y", "-", "A", "u", "t", "h", "o", "r", "i", "z", "a", "t", "i", "o", "n", ":", " ">>,
     <<"R", "a", "n", "g", "e", ":", " ">>,
     <<"R", "e", "f", "e", "r", "e", "r", ":", " ">>,
     <<"T", "E", ":", " ">>,
     <<"U", "s", "e", "r", "-", "A", "g", "e", "n", "t", ":", " ">> >>

ResponseHeaderLabels ==
  << <<"A", "c", "c", "e", "p", "t", "-", "R", "a", "n", "g", "e", "s", ":", " ">>,
     <<"A", "g", "e", ":", " ">>,
     <<"E", "t", "a", "g", ":", " ">>,
     <<"L", "o", "c", "a", "t", "i", "o", "n", ":", " ">>,
     <<"P", "r", "o", "x", "y", "-", "A", "u", "t", "h", "e", "n", "t", "i", "c", "a", "t", "e", ":", " ">>,
     <<"R", "e", "t", "r", "y", "-", "A", "f", "t", "e", "r", ":", " ">>,
     <<"S", "e", "r", "v", "e", "r", ":", " ">>,
     <<"V", "a", "r", "y", ":", " ">>,
     <<"W", "W", "W", "-", "A", "u", "t", "h", "e", "n", "t", "i", "c", "a", "t", "e", ":", " ">> >>

GeneralHeaderLabels ==
  << <<"C", "a", "c", "h", "e", "-", "C", "o", "n", "t", "r", "o", "l", ":", " ">>,
     <<"C", "o", "n", "n", "e", "c", "t", "i", "o", "n", ":", " ">>,
     <<"D", "a", "t", "e", ":", " ">>,
     <<"P", "r", "a", "g", "m", "a", ":", " ">>,
     <<"T", "r", "a", "i", "l", "e", "r", ":", " ">>,
     <<"T", "r", "a", "n", "s", "f", "e", "r", "-", "E", "n", "c", "o", "d", "i", "n", "g", ":", " ">>,
     <<"U", "p", "g", "r", "a", "d", "e", ":", " ">>,
     <<"V", "i", "a", ":", " ">>,
     <<"W", "a", "r", "n", "i", "n", "g", ":", " ">> >>

EntityHeaderLabels ==
  << <<"A", "l", "l", "o", "w">>,
     <<"C", "o", "n", "t", "e", "n", "t", "-", "E", "n", "c", "o", "d", "i", "n", "g", ":", " ">>,
     <<"C", "o", "n", "t", "e", "n", "t", "-", "L", "a", "n", "g", "u", "a", "g", "e", ":", " ">>,
     <<"C", "o", "n", "t", "e", "n", "t", "-", "L", "e", "n", "g", "t", "h", ":", " ">>,
     <<"C", "o", "n", "t", "e", "n", "t", "-", "L", "o", "c", "a", "t", "i", "o", "n", ":", " ">>,
     <<"C", "o", "n", "t", "e", "n", "t", "-", "M", "D", "5", ":", " ">>,
     <<"C", "o", "n", "t", "e", "n", "t", "-", "R", "a", "n", "g", "e", ":", " ">>,
     <<"C", "o", "n", "t", "e", "n", "t", "-", "T", "y", "p", "e", ":", " ">>,
     <<"E", "x", "p", "i", "r", "e", "s", ":", " ">>,
     <<"L", "a", "s", "t", "-", "M", "o", "d", "i", "f", "i", "e", "d", ":", " ">> >>

----------------------------------------------------------------------------
(* Header field names, in declaration order: the tags getField matches *)

RequestHeaderNames ==
  << <<"A", "c", "c", "e", "p", "t">>,
     <<"A", "c", "c", "e", "p", "t", "-", "C", "h", "a", "r", "s", "e", "t">>,
     <<"A", "c", "c", "e", "p", "t", "-", "E", "n", "c", "o", "d", "i", "n", "g">>,
     <<"A", "c", "c", "e", "p", "t", "-", "L", "a", "n", "g", "u", "a", "g", "e">>,
     <<"A", "u", "t", "h", "o", "r", "i", "z", "a", "t", "i", "o", "n">>,
     <<"E", "x", "p", "e", "c", "t">>,
     <<"F", "r", "o", "m">>,
     <<"H", "o", "s", "t">>,
     <<"I", "f", "-", "M", "a", "t", "c", "h">>,
     <<"I", "f", "-", "M", "o", "d", "i", "f", "i", "e", "d", "-", "S", "i", "n", "c", "e">>,
     <<"I", "f", "-", "N", "o", "n", "e", "-", "M", "a", "t", "c", "h">>,
     <<"I", "f", "-", "R", "a", "n", "g", "e">>,
     <<"I", "f", "-", "U", "n", "m", "o", "d", "i", "f", "i", "e", "d", "-", "S", "i", "n", "c", "e">>,
     <<"M", "a", "x", "-", "F", "o", "r", "w", "a", "r", "d", "s">>,
     <<"P", "r", "o", "x", "y", "-", "A", "u", "t", "h", "o", "r", "i", "z", "a", "t", "i", "o", "n">>,
     <<"R", "a", "n", "g", "e">>,
     <<"R", "e", "f", "e", "r", "e", "r">>,
     <<"T", "E">>,
     <<"U", "s", "e", "r", "-", "A", "g", "e", "n", "t">> >>

ResponseHeaderNames ==
  << <<"A", "c", "c", "e", "p", "t", "-", "R", "a", "n", "g", "e", "s">>,
     <<"A", "g", "e">>,
     <<"E", "T", "a", "g">>,
     <<"L", "o", "c", "a", "t", "i", "o", "n">>,
     <<"P", "r", "o", "x", "y", "-", "A", "u", "t", "h", "e", "n", "t", "i", "c", "a", "t", "e">>,
     <<"R", "e", "t", "r", "y", "-", "A", "f", "t", "e", "r">>,
     <<"S", "e", "r", "v", "e", "r">>,
     <<"V", "a", "r", "y">>,
     <<"W", "W", "W", "-", "A", "u", "t", "h", "e", "n", "t", "i", "c", "a", "t", "e">> >>

GeneralHeaderNames ==
  << <<"C", "a", "c", "h", "e", "-", "C", "o", "n", "t", "r", "o", "l">>,
     <<"C", "o", "n", "n", "e", "c", "t", "i", "o", "n">>,
     <<"D", "a", "t", "e">>,
     <<"P", "r", "a", "g", "m", "a">>,
     <<"T", "r", "a", "i", "l", "e", "r">>,
     <<"T", "r", "a", "n", "s", "f", "e", "r", "-", "E", "n", "c", "o", "d", "i", "n", "g">>,
     <<"U", "p", "g", "r", "a", "d", "e">>,
     <<"V", "i", "a">>,
     <<"W", "a", "r", "n", "i", "n", "g">> >>

EntityHeaderNames ==
  << <<"A", "l", "l", "o", "w">>,
     <<"C", "o", "n", "t", "e", "n", "t", "-", "E", "n", "c", "o", "d", "i", "n", "g">>,
     <<"C", "o", "n", "t", "e", "n", "t", "-", "L", "a", "n", "g", "u", "a", "g", "e">>,
     <<"C", "o", "n", "t", "e", "n", "t", "-", "L", "e", "n", "g", "t", "h">>,
     <<"C", "o", "n", "t", "e", "n", "t", "-", "L", "o", "c", "a", "t", "i", "o", "n">>,
     <<"C", "o", "n", "t", "e", "n", "t", "-", "M", "D", "5">>,
     <<"C", "o", "n", "t", "e", "n", "t", "-", "R", "a", "n", "g", "e">>,
     <<"C", "o", "n", "t", "e", "n", "t", "-", "T", "y", "p", "e">>,
     <<"E", "x", "p", "i", "r", "e", "s">>,
     <<"L", "a", "s", "t", "-", "M", "o", "d", "i", "f", "i", "e", "d">> >>

----------------------------------------------------------------------------
(* Message model *)

UpperCase ==
  <<"A", "B", "C", "D", "E", "F", "G", "H", "I", "J", "K", "L", "M",
    "N", "O", "P", "Q", "R", "S", "T", "U", "V", "W", "X", "Y", "Z">>

LowerCase ==
  <<"a", "b", "c", "d", "e", "f", "g", "h", "i", "j", "k", "l", "m",
    "n", "o", "p", "q", "r", "s", "t", "u", "v", "w", "x", "y", "z">>

\* a tolower that changes nothing: the tokens are matched as they are
tolower_identity(c) == c

\* c >= 'A' && c <= 'Z' ? c + ('a' - 'A') : c
tolower(c) ==
  IF \E i \in 1..26 : UpperCase[i] = c
    THEN LowerCase[CHOOSE i \in 1..26 : UpperCase[i] = c]
    ELSE c

iequals(a, b) ==
  /\ Len(a) = Len(b)
  /\ \A i \in 1..Len(a) : tolower(a[i]) = tolower(b[i])

StandardMethods ==
  << <<"G", "E", "T">>, <<"P", "O", "S", "T">>, <<"P", "U", "T">>,
     <<"D", "E", "L", "E", "T", "E">>, <<"H", "E", "A", "D">>,
     <<"O", "P", "T", "I", "O", "N", "S">>,
     <<"C", "O", "N", "N", "E", "C", "T">>, <<"T", "R", "A", "C", "E">> >>

\* HTTPMethod::HTTPMethod(std::string_view): code_ is 0 for INVALID_, the
\* index of the matched standard token, or 9 for EXTENSION_METHOD
HTTPMethod(token) ==
  [code_ |-> IF token = <<>> THEN 0
             ELSE IF \E i \in 1..8 : iequals(token, StandardMethods[i])
               THEN CHOOSE i \in 1..8 : iequals(token, StandardMethods[i])
               ELSE 9,
   method_ |-> token]

\* HTTPMethod::method()
method(m) ==
  IF m.code_ = 0 THEN <<>>
  ELSE IF m.code_ \in 1..8 THEN StandardMethods[m.code_]
  ELSE m.method_

\* HTTPMethod::valid()
MethodValid(m) == m.code_ # 0

\* a valid() that does not look at the uri
valid_method_only(req) == MethodValid(req.method)

\* HTTPRequest::valid()
valid(req) == MethodValid(req.method) /\ req.uri # <<>>

\* obj_.version, the text of the protocol version
version == <<"H", "T", "T", "P", "/", "1", ".", "1">>

----------------------------------------------------------------------------
(* Status codes *)

\* HTTPStatusCode::HTTPStatusCode(int code, std::string_view reason_phrase)
HTTPStatusCode(code, reason_phrase) ==
  [code_ |-> code, reason_phrase_ |-> reason_phrase]

\* kDefaultReasonPhrase
kDefaultReasonPhrase == <<"U", "n", "k", "n", "o", "w", "n">>

\* HTTPStatusCode::informational: CONTINUE to SWITCHING_PROTOCOLS
informational(s) == s.code_ >= 100 /\ s.code_ <= 101

\* HTTPStatusCode::success: OK to TEMPORARY_REDIRECT
success(s) == s.code_ >= 200 /\ s.code_ <= 307

\* HTTPStatusCode::redirection: MULTIPLE_CHOICES to TEMPORARY_REDIRECT
redirection(s) == s.code_ >= 300 /\ s.code_ <= 307

\* HTTPStatusCode::client_error: BAD_REQUEST to EXPECTATION_FAILED
client_error(s) == s.code_ >= 400 /\ s.code_ <= 417

\* HTTPStatusCode::server_error: INTERNAL_SERVER_ERROR to
\* HTTP_VERSION_NOT_SUPPORTED
server_error(s) == s.code_ >= 500 /\ s.code_ <= 505

\* HTTPStatusCode::standard
standard(s) ==
  informational(s) \/ success(s) \/ redirection(s) \/ client_error(s)
    \/ server_error(s)

\* the enumerators of HTTPStatusCode
StatusCodeEnum ==
  {0, 100, 101, 200, 201, 202, 203, 204, 205, 206, 300, 301, 302, 303,
     304, 305, 307, 400, 401, 402, 403, 404, 405, 406, 407, 408, 409, 410,
     411, 412, 413, 414, 415, 416, 417, 500, 501, 502, 503, 504, 505}

\* the cases of the switch of reason()
ReasonCase(code) ==
  CASE code = 0 -> <<"I", "n", "v", "a", "l", "i", "d", " ", "S", "t", "a", "t", "u", "s", " ", "C", "o", "d", "e">>
    [] code = 100 -> <<"C", "o", "n", "t", "i", "n", "u", "e">>
    [] code = 101 -> <<"S", "w", "i", "t", "c", "h", "i", "n", "g", " ", "P", "r", "o", "t", "o", "c", "o", "l", "s">>
    [] code = 200 -> <<"O", "K">>
    [] code = 201 -> <<"C", "r", "e", "a", "t", "e", "d">>
    [] code = 202 -> <<"A", "c", "c", "e", "p", "t", "e", "d">>
    [] code = 203 -> <<"N", "o", "n", "-", "A", "u", "t", "h", "o", "r", "i", "t", "a", "t", "i", "v", "e", " ", "I", "n", "f", "o", "r", "m", "a", "t", "i", "o", "n">>
    [] code = 204 -> <<"N", "o", " ", "C", "o", "n", "t", "e", "n", "t">>
    [] code = 205 -> <<"R", "e", "s", "e", "t", " ", "C", "o", "n", "t", "e", "n", "t">>
    [] code = 206 -> <<"P", "a", "r", "t", "i", "a", "l", " ", "C", "o", "n", "t", "e", "n", "t">>
    [] code = 300 -> <<"M", "u", "l", "t", "i", "p", "l", "e", " ", "C", "h", "o", "i", "c", "e", "s">>
    [] code = 301 -> <<"M", "o", "v", "e", "d", " ", "P", "e", "r", "m", "a", "n", "e", "n", "t", "l", "y">>
    [] code = 302 -> <<"F", "o", "u", "n", "d">>
    [] code = 303 -> <<"S", "e", "e", " ", "O", "t", "h", "e", "r">>
    [] code = 304 -> <<"N", "o", "t", " ", "M", "o", "d", "i", "f", "i", "e", "d">>
    [] code = 305 -> <<"U", "s", "e", " ", "P", "r", "o", "x", "y">>
    [] code = 307 -> <<"T", "e", "m", "p", "o", "r", "a", "r", "y", " ", "R", "e", "d", "i", "r", "e", "c", "t">>
    [] code = 400 -> <<"B", "a", "d", " ", "R", "e", "q", "u", "e", "s", "t">>
    [] code = 401 -> <<"U", "n", "a", "u", "t", "h", "o", "r", "i", "z", "e", "d">>
    [] code = 402 -> <<"P", "a", "y", "m", "e", "n", "t", " ", "R", "e", "q", "u", "i", "r", "e", "d">>
    [] code = 403 -> <<"F", "o", "r", "b", "i", "d", "d", "e", "n">>
    [] code = 404 -> <<"N", "o", "t", " ", "F", "o", "u", "n", "d">>
    [] code = 405 -> <<"M", "e", "t", "h", "o", "d", " ", "N", "o", "t", " ", "A", "l", "l", "o", "w", "e", "d">>
    [] code = 406 -> <<"N", "o", "t", " ", "A", "c", "c", "e", "p", "t", "a", "b", "l", "e">>
    [] code = 407 -> <<"P", "r", "o", "x", "y", " ", "A", "u", "t", "h", "e", "n", "t", "i", "c", "a", "t", "i", "o", "n", " ", "R", "e", "q", "u", "i", "r", "e", "d">>
    [] code = 408 -> <<"R", "e", "q", "u", "e", "s", "t", " ", "T", "i", "m", "e", "o", "u", "t">>
    [] code = 409 -> <<"C", "o", "n", "f", "l", "i", "c", "t">>
    [] code = 410 -> <<"G", "o", "n", "e">>
    [] code = 411 -> <<"L", "e", "n", "g", "t", "h", " ", "R", "e", "q", "u", "i", "r", "e", "d">>
    [] code = 412 -> <<"P", "r", "e", "c", "o", "n", "d", "i", "t", "i", "o", "n", " ", "F", "a", "i", "l", "e", "d">>
    [] code = 413 -> <<"R", "e", "q", "u", "e", "s", "t", " ", "E", "n", "t", "i", "t", "y", " ", "T", "o", "o", " ", "L", "a", "r", "g", "e">>
    [] code = 414 -> <<"R", "e", "q", "u", "e", "s", "t", " ", "U", "R", "I", " ", "T", "o", "o", " ", "L", "a", "r", "g", "e">>
    [] code = 415 -> <<"U", "n", "s", "u", "p", "p", "o", "r", "t", "e", "d", " ", "M", "e", "d", "i", "a", " ", "T", "y", "p", "e">>
    [] code = 416 -> <<"R", "e", "q", "u", "e", "s", "t", "e", "d", " ", "R", "a", "n", "g", "e", " ", "N", "o", "t", " ", "S", "a", "t", "i", "s", "f", "i", "a", "b", "l", "e">>
    [] code = 417 -> <<"E", "x", "p", "e", "c", "t", "a", "t", "i", "o", "n", " ", "F", "a", "i", "l", "e", "d">>
    [] code = 500 -> <<"I", "n", "t", "e", "r", "n", "a", "l", " ", "S", "e", "r", "v", "e", "r", " ", "E", "r", "r", "o", "r", "S", "t", "a", "t", "u", "s">>
    [] code = 501 -> <<"N", "o", "t", " ", "I", "m", "p", "l", "e", "m", "e", "n", "t", "e", "d">>
    [] code = 502 -> <<"B", "a", "d", " ", "G", "a", "t", "e", "w", "a", "y">>
    [] code = 503 -> <<"S", "e", "r", "v", "i", "c", "e", " ", "U", "n", "a", "v", "a", "i", "l", "a", "b", "l", "e">>
    [] code = 504 -> <<"G", "a", "t", "e", "w", "a", "y", " ", "T", "i", "m", "e", "o", "u", "t">>
    [] code = 505 -> <<"H", "T", "T", "P", " ", "V", "e", "r", "s", "i", "o", "n", " ", "N", "o", "t", " ", "S", "u", "p", "p", "o", "r", "t", "e", "d">>

\* a reason() that prefers the phrase it was constructed with
reason_phrase_first(s) ==
  IF s.reason_phrase_ # <<>> THEN s.reason_phrase_
  ELSE IF s.code_ \in StatusCodeEnum THEN ReasonCase(s.code_)
  ELSE kDefaultReasonPhrase

\* HTTPStatusCode::reason
reason(s) ==
  IF s.code_ \in StatusCodeEnum THEN ReasonCase(s.code_)
  ELSE IF s.reason_phrase_ = <<>> THEN kDefaultReasonPhrase
  ELSE s.reason_phrase_

\* snprintf(code_buffer_, "%d", code) for code >= 0: the decimal digits
RECURSIVE Digits(_)
Digits(n) ==
  LET d == <<"0", "1", "2", "3", "4", "5", "6", "7", "8", "9">>[(n % 10) + 1]
  IN  IF n < 10 THEN <<d>> ELSE Digits(n \div 10) \o <<d>>

----------------------------------------------------------------------------
(* Requests.  A handle keeps a reference to the value it serializes        *)
(* (const T& obj_); a reference to a request is the tuple of the texts it  *)
(* was built from.                                                         *)

Empty(n) == [i \in 1..n |-> <<>>]

\* a request with the given method token, uri, Via, Host, Last-Modified,
\* extension header and body, every other header field empty
MakeRequest(token, uri, via, host, last_modified, extension, body) ==
  [method |-> HTTPMethod(token),
   uri |-> uri,
   general_header |-> [Empty(9) EXCEPT ![8] = via],
   request_header |-> [Empty(19) EXCEPT ![8] = host],
   entity_header |-> [Empty(11) EXCEPT ![10] = last_modified,
                                       ![11] = extension],
   message_body |-> body]

\* the header bag of a request or of a response
Header(req, bag) ==
  CASE bag = "general" -> req.general_header
    [] bag = "request" -> req.request_header
    [] bag = "response" -> req.response_header
    [] bag = "entity" -> req.entity_header

Opt(text) == {<<>>, text}

\* the requests the serializer is driven over: each of method, uri, Via,
\* Host, Last-Modified, extension header and body empty or not
SerRequests ==
  {<<t, u, v, h, m, e, b>> :
     t \in {<<>>, <<"G", "E", "T">>, <<"g", "e", "t">>},
     u \in Opt(<<"/", "x">>), v \in Opt(<<"v">>), h \in Opt(<<"h">>),
     m \in Opt(<<"m">>), e \in Opt(<<"e">>), b \in Opt(<<"b">>)}

\* the requests that exist, by reference
Requests ==
  [ref \in SerRequests |->
     MakeRequest(ref[1], ref[2], ref[3], ref[4], ref[5], ref[6], ref[7])]

\* the object a reference refers to: a request built by MakeRequest, or a
\* request given by its method token, uri, three header bags and body, or a
\* response given by its status code, three header bags and body
Deref(ref) ==
  IF Len(ref) = 7 THEN Requests[ref]
  ELSE IF Len(ref) = 6
    THEN [method |-> HTTPMethod(ref[1]), uri |-> ref[2],
          general_header |-> ref[3], request_header |-> ref[4],
          entity_header |-> ref[5], message_body |-> ref[6]]
  ELSE [status_code |-> ref[1], general_header |-> ref[2],
        response_header |-> ref[3], entity_header |-> ref[4],
        message_body |-> ref[5]]

\* Request{method=GET, uri="/x", host="h"}
ScenarioA ==
  <<<<"G", "E", "T">>, <<"/", "x">>, <<>>, <<"h">>, <<>>, <<>>, <<>>>>

\* "GET /x HTTP/1.1\r\nHost: h\r\n\r\n"
ScenarioABytes ==
  <<"G", "E", "T", " ", "/", "x", " ", "H", "T", "T", "P", "/", "1", ".",
    "1", CR, LF, "H", "o", "s", "t", ":", " ", "h", CR, LF, CR, LF>>

----------------------------------------------------------------------------
(* Serialization handles of the leaves: const char* and std::string_view *)

NewCStr(text) ==
  [kind |-> "cstr", obj |-> text, pos |-> 0, err |-> OK, gcount |-> 0]

NewSv(text) ==
  [kind |-> "sv", obj |-> text, pos |-> 0, err |-> OK, gcount |-> 0]

\* eof() of both leaves: *ptr_ == '\0', idx_ >= obj_.size()
LeafEof(h) == h.pos >= Len(h.obj)

\* a serialize that does not check the size of the buffer
CStrSerializeUnchecked(h, n) ==
  IF LeafEof(h) THEN [h |-> [h EXCEPT !.err = ENODATA], w |-> <<>>]
  ELSE LET k == Min(n, Len(h.obj) - h.pos)
       IN  [h |-> [h EXCEPT !.gcount = k, !.pos = @ + k],
            w |-> SubSeq(h.obj, h.pos + 1, h.pos + k)]

\* HTTPSerializationHandle<const char*>::serialize
CStrSerialize(h, n) ==
  IF n = 0 THEN [h |-> [h EXCEPT !.err = EINVAL], w |-> <<>>]
  ELSE IF LeafEof(h) THEN [h |-> [h EXCEPT !.err = ENODATA], w |-> <<>>]
  ELSE LET k == Min(n, Len(h.obj) - h.pos)
       IN  [h |-> [h EXCEPT !.gcount = k, !.pos = @ + k],
            w |-> SubSeq(h.obj, h.pos + 1, h.pos + k)]

\* a serialize that does nothing, and records nothing, once at eof
SvSerializeSilent(h, n) ==
  IF n = 0 THEN [h |-> [h EXCEPT !.err = EINVAL], w |-> <<>>]
  ELSE IF LeafEof(h) THEN [h |-> h, w |-> <<>>]
  ELSE LET k == Min(n, Len(h.obj) - h.pos)
       IN  [h |-> [h EXCEPT !.gcount = k, !.pos = @ + k],
            w |-> SubSeq(h.obj, h.pos + 1, h.pos + k)]

\* HTTPSerializationHandle<std::string_view>::serialize
SvSerialize(h, n) ==
  IF n = 0 THEN [h |-> [h EXCEPT !.err = EINVAL], w |-> <<>>]
  ELSE IF LeafEof(h) THEN [h |-> [h EXCEPT !.err = ENODATA], w |-> <<>>]
  ELSE LET k == Min(n, Len(h.obj) - h.pos)
       IN  IF k = 0
             THEN [h |-> [h EXCEPT !.gcount = 0, !.err = ENODATA], w |-> <<>>]
             ELSE [h |-> [h EXCEPT !.gcount = k, !.pos = @ + k],
                   w |-> SubSeq(h.obj, h.pos + 1, h.pos + k)]

\* HTTPSerializationHandle<HTTPStatusCode>: the constructor prints the code
\* into code_buffer_ ("%d"), req_ is the number of digits; code is given as
\* its digits
NewStatusCode(code) ==
  [kind |-> "status", obj |-> code, pos |-> 0, err |-> OK, gcount |-> 0]

\* HTTPSerializationHandle<HTTPStatusCode>::eof: idx_ == req_
StatusCodeEof(h) == h.pos = Len(h.obj)

\* HTTPSerializationHandle<HTTPStatusCode>::serialize
StatusCodeSerialize(h, n) ==
  IF n = 0 THEN [h |-> [h EXCEPT !.err = EINVAL], w |-> <<>>]
  ELSE IF h.pos >= Len(h.obj)
    THEN [h |-> [h EXCEPT !.err = ENODATA], w |-> <<>>]
  ELSE LET k == Min(n, Len(h.obj) - h.pos)
       IN  [h |-> [h EXCEPT !.gcount = k, !.pos = @ + k],
            w |-> SubSeq(h.obj, h.pos + 1, h.pos + k)]

----------------------------------------------------------------------------
(* Serialization handles of the header bags.  A header value is the        *)
(* sequence of its fields in declaration order; the handle keeps the index *)
(* of the current part (child_idx_) and that part's handle (child_handle_).*)

Labels(bag) ==
  CASE bag = "request" -> RequestHeaderLabels
    [] bag = "response" -> ResponseHeaderLabels
    [] bag = "general" -> GeneralHeaderLabels
    [] bag = "entity" -> EntityHeaderLabels

\* the last case of the switch of each bag
LastPart(bag) ==
  CASE bag = "request" -> 56
    [] bag = "response" -> 26
    [] bag = "general" -> 26
    [] bag = "entity" -> 31

\* a variant whose first two fields have changed places
NewPartSecondFirst(bag, obj, i) ==
  LET k == IF i < 3 THEN i + 3 ELSE IF i < 6 THEN i - 3 ELSE i
  IN  IF bag = "entity" /\ k = 30 THEN NewSv(obj[11])
      ELSE IF bag = "entity" /\ k = 31 THEN NewCStr(CRLF)
      ELSE IF k % 3 = 0 THEN NewCStr(Labels(bag)[(k \div 3) + 1])
      ELSE IF k % 3 = 1 THEN NewSv(obj[(k \div 3) + 1])
      ELSE NewCStr(CRLF)

\* the handle the variant holds at index i: a label, a field value or CRLF
NewPart(bag, obj, i) ==
  IF bag = "entity" /\ i = 30 THEN NewSv(obj[11])
  ELSE IF bag = "entity" /\ i = 31 THEN NewCStr(CRLF)
  ELSE IF i % 3 = 0 THEN NewCStr(Labels(bag)[(i \div 3) + 1])
  ELSE IF i % 3 = 1 THEN NewSv(obj[(i \div 3) + 1])
  ELSE NewCStr(CRLF)

\* a table whose label cases test the field before theirs
DependentFieldOfPrevious(bag, obj, i) ==
  IF bag = "entity" /\ i = 30 THEN obj[11]
  ELSE IF bag = "entity" /\ i = 31 THEN obj[10]
  ELSE IF i % 3 = 0 /\ i > 0 THEN obj[i \div 3]
  ELSE obj[(i \div 3) + 1]

\* the dependent_field of case i
DependentField(bag, obj, i) ==
  IF bag = "entity" /\ i = 30 THEN obj[11]
  ELSE IF bag = "entity" /\ i = 31 THEN obj[10]
  ELSE obj[(i \div 3) + 1]

NewHeaderHandle(bag, ref) ==
  [kind |-> "hdr", bag |-> bag, obj |-> ref, child_idx |-> 0,
   child |-> NewPart(bag, Header(Deref(ref), bag), 0), err |-> OK,
   gcount |-> 0]

HeaderEof(h) == h.child_idx > LastPart(h.bag)

LeafSerialize(h, n) ==
  IF h.kind = "cstr" THEN CStrSerialize(h, n) ELSE SvSerialize(h, n)

\* operator bool of a leaf
LeafTruthy(h) == ~LeafEof(h) /\ h.err = OK

\* the switch of a header bag's serialize, entered at case h.child_idx with
\* rem bytes of the buffer left and w written so far in this call
RECURSIVE HeaderSwitch(_, _, _)
HeaderSwitch(h, rem, w) ==
  LET i == h.child_idx
      obj_ == Header(Deref(h.obj), h.bag)
      r == LeafSerialize(h.child, rem)
      c == r.h
      Advance(h1, rem1, w1) ==
        IF i < LastPart(h.bag)
          THEN HeaderSwitch([h1 EXCEPT !.child = NewPart(h.bag, obj_, i + 1),
                                       !.child_idx = i + 1], rem1, w1)
          ELSE [h |-> [h1 EXCEPT !.child_idx = i + 1], w |-> w1]
  IN  IF DependentField(h.bag, obj_, i) # <<>>
        THEN IF ~LeafTruthy(c)
               THEN IF c.err # OK
                      THEN [h |-> [h EXCEPT !.child = c, !.err = c.err,
                                            !.gcount = @ + c.gcount],
                            w |-> w \o r.w]
                      ELSE Advance([h EXCEPT !.child = c, !.err = OK,
                                          !.gcount = @ + c.gcount],
                                rem - c.gcount, w \o r.w)
               ELSE [h |-> [h EXCEPT !.child = c, !.gcount = @ + c.gcount],
                     w |-> w \o r.w]
        ELSE Advance(h, rem, w)

\* HTTPSerializationHandle<HTTPRequestHeader>::serialize and its three
\* siblings (general, response, entity)
HeaderSerialize(h, n) ==
  IF n = 0 THEN [h |-> [h EXCEPT !.err = EINVAL], w |-> <<>>]
  ELSE IF HeaderEof(h) THEN [h |-> [h EXCEPT !.err = ENODATA], w |-> <<>>]
  ELSE HeaderSwitch([h EXCEPT !.gcount = 0], n, <<>>)

----------------------------------------------------------------------------
(* Serialization handle of a request *)

\* the handle the variant holds at index i
NewChild(ref, i) ==
  CASE i = 0 -> NewSv(method(Deref(ref).method))
    [] i = 1 -> NewCStr(SP)
    [] i = 2 -> NewSv(Deref(ref).uri)
    [] i = 3 -> NewCStr(SP)
    [] i = 4 -> NewSv(version)
    [] i = 5 -> NewCStr(CRLF)
    [] i = 6 -> NewHeaderHandle("general", ref)
    [] i = 7 -> NewHeaderHandle("request", ref)
    [] i = 8 -> NewHeaderHandle("entity", ref)
    [] i = 9 -> NewCStr(CRLF)
    [] i = 10 -> NewSv(Deref(ref).message_body)

NewRequestHandle(ref) ==
  [kind |-> "req", obj |-> ref, child_idx |-> 0, child |-> NewChild(ref, 0),
   err |-> OK, gcount |-> 0]

ChildSerialize(h, n) ==
  IF h.kind = "hdr" THEN HeaderSerialize(h, n) ELSE LeafSerialize(h, n)

ChildEof(h) == IF h.kind = "hdr" THEN HeaderEof(h) ELSE LeafEof(h)

\* operator bool of a child handle
ChildTruthy(h) == h.err = OK /\ ~ChildEof(h)

\* HTTPSerializationHandle<HTTPRequest>::eof
eof(h) == h.child_idx > 10

\* HTTPSerializationHandle<HTTPRequest>::fail
fail(h) == h.err

\* HTTPSerializationHandle<HTTPRequest>::gcount
gcount(h) == h.gcount

\* HTTPSerializationHandle<HTTPRequest>::operator bool
Truthy(h) == fail(h) = OK /\ ~eof(h)

\* the switch of the request's serialize, entered at case h.child_idx
RECURSIVE RequestSwitch(_, _, _)
RequestSwitch(h, rem, w) ==
  LET i == h.child_idx
      r == ChildSerialize(h.child, rem)
      c == r.h
  IN  IF ~ChildTruthy(c)
        THEN IF c.err # OK
               THEN [h |-> [h EXCEPT !.child = c, !.err = c.err,
                                     !.gcount = @ + c.gcount],
                     w |-> w \o r.w]
               ELSE LET h1 == [h EXCEPT !.child = c, !.err = OK,
                                        !.gcount = @ + c.gcount]
                    IN  IF i < 10
                          THEN RequestSwitch(
                                 [h1 EXCEPT !.child = NewChild(h.obj, i + 1),
                                            !.child_idx = i + 1],
                                 rem - c.gcount, w \o r.w)
                          ELSE [h |-> [h1 EXCEPT !.child_idx = i + 1],
                                w |-> w \o r.w]
        ELSE [h |-> [h EXCEPT !.child = c, !.gcount = @ + c.gcount],
              w |-> w \o r.w]

\* HTTPSerializationHandle<HTTPRequest>::serialize: the handle after the
\* call and the bytes the call stored at the head of the buffer
serialize(h, n) ==
  IF n = 0 THEN [h |-> [h EXCEPT !.err = EINVAL], w |-> <<>>]
  ELSE IF eof(h) THEN [h |-> [h EXCEPT !.err = ENODATA], w |-> <<>>]
  ELSE RequestSwitch([h EXCEPT !.gcount = 0], n, <<>>)

\* HTTPSerializationHandle<HTTPRequest>::reset
reset(h) == NewRequestHandle(h.obj)

----------------------------------------------------------------------------
(* The serialized form of a value, read off the part tables of the         *)
(* switches: every part in order, a header part only when its dependent    *)
(* field is non-empty.                                                     *)

RECURSIVE HeaderParts(_, _, _)
HeaderParts(bag, obj, i) ==
  IF i > LastPart(bag) THEN <<>>
  ELSE (IF DependentField(bag, obj, i) # <<>>
          THEN NewPart(bag, obj, i).obj ELSE <<>>)
       \o HeaderParts(bag, obj, i + 1)

HeaderLayout(bag, obj) == HeaderParts(bag, obj, 0)

RequestLayout(req) ==
  method(req.method) \o SP \o req.uri \o SP \o version \o CRLF
    \o HeaderLayout("general", req.general_header)
    \o HeaderLayout("request", req.request_header)
    \o HeaderLayout("entity", req.entity_header)
    \o CRLF \o req.message_body

----------------------------------------------------------------------------
(* State *)

VARIABLES
  handle,        \* the serialization handle a caller drives over a request
  buffer,        \* that caller's destination buffer
  out,           \* the bytes the caller has taken out of the buffer so far
  req_sem_,      \* WifiClient::req_sem_, the count of the semaphore
  request_,      \* WifiClient::request_: req_id, rcv_callback, flags
  sigio,         \* whether serial_ has the data-ready callback installed
  req_id,        \* the static req_id of WifiClient::Request
  sent,          \* the payload Request last handed to sendCMD_, if any
  rx,            \* number of bytes waiting in serial_
  halted,        \* mbed_error has halted the system
  pc,            \* where each thread is
  treq,          \* the request each thread passed to the Request it is in
  promise,       \* the HTTPResponsePromise each thread holds
  darg,          \* the id each thread passed to the drop it is in
  tret,          \* the call that returned last, and what it returned
  slots,         \* acquisitions minus releases of req_sem_ by each thread
  isr,           \* what the data-ready callback did to raise the flag now set
  ids,           \* the ids the successful calls of Request have returned
  fired,         \* the callback has run since it was last installed
  ppc,           \* where the thread that called playMusic is
  file,          \* the open music file: its length and the read position
  more,          \* playMusic's more: the file has not reached its end
  curr_bank,     \* playMusic's curr_bank, which DataCallback_ flips
  next_bank,     \* the bank the refill step chose, and the initial loop's i
  audio_buf,     \* the samples in each bank
  DMA,           \* the controller: enabled, the bank set up, samples moved
  DACCTRL,       \* whether the DAC is running
  signal,        \* EVENT_FLAG_AUDIO_LOAD is set for the playing thread
  transferred,   \* the file's samples that have reached the DAC
  ip_            \* the address of the station, empty while not connected

servars == <<handle, buffer, out>>

protovars ==
  <<req_sem_, request_, sigio, req_id, sent, rx, halted, pc, treq, promise,
    darg, tret, slots, isr, ids, fired>>

periphvars ==
  <<ppc, file, more, curr_bank, next_bank, audio_buf, DMA, DACCTRL, signal,
    transferred, ip_>>

vars == <<handle, buffer, out, req_sem_, request_, sigio, req_id, sent, rx,
          halted, pc, treq, promise, darg, tret, slots, isr, ids, fired,
          periphvars>>

Threads == 1..NumThreads

\* a buffer large enough for every request of the model
BigBuffer == 64

\* WifiClient::kMaxRequests
kMaxRequests == 1

\* MBED_ERROR_CODE_TIME_OUT
TIME_OUT == "TIME_OUT"

\* the promise Request constructs: HTTPResponsePromise promise{response, *this}
NoPromise == [req_id |-> 0, err |-> OK]

\* no request passed, no drop in progress, no call returned
NoRequest == <<>>
NoDrop == [req |-> 0, promise |-> FALSE]
NoReturn == [t |-> 0, op |-> "none", req |-> NoRequest, err |-> OK,
             value |-> 0]

\* kBankCount
kBankCount == 2

Banks == 0..(kBankCount - 1)

\* nothing has called playMusic: the file is closed, the DAC and the DMA
\* controller are off, audio_buf is zero-initialized
PeriphInit ==
  /\ ppc = "idle"
  /\ file = [len |-> 0, pos |-> 0]
  /\ more = FALSE
  /\ curr_bank = 0
  /\ next_bank = 0
  /\ audio_buf = [b \in Banks |-> [i \in 1..BankSize |-> 0]]
  /\ DMA = [enabled |-> FALSE, bank |-> 0, count |-> 0]
  /\ DACCTRL = FALSE
  /\ signal = FALSE
  /\ transferred = {}
  /\ ip_ = <<>>

ProtoInit ==
  /\ req_sem_ = kMaxRequests
  /\ request_ = [req_id |-> 0, rcv_callback |-> FALSE, flags |-> FALSE]
  /\ sigio = FALSE
  /\ req_id = 0
  /\ sent = <<>>
  /\ rx = 0
  /\ halted = FALSE
  /\ pc = [t \in Threads |-> "idle"]
  /\ treq = [t \in Threads |-> NoRequest]
  /\ promise = [t \in Threads |-> NoPromise]
  /\ darg = [t \in Threads |-> NoDrop]
  /\ tret = NoReturn
  /\ slots = [t \in Threads |-> 0]
  /\ isr = <<>>
  /\ ids = {}
  /\ fired = FALSE
  /\ PeriphInit

----------------------------------------------------------------------------
(* A caller that drives one handle: while (handle) { handle.serialize(buf); *)
(* take the first gcount() bytes of buf }                                   *)

SerInit ==
  /\ handle \in {NewRequestHandle(r) : r \in SerRequests}
  /\ buffer = [i \in 1..BigBuffer |-> NUL]
  /\ out = <<>>
  /\ ProtoInit

ChunkSizes == (1..MaxChunk) \cup {BigBuffer}

\* the buffer after a call stored w at its head
Store(buf, w) == w \o SubSeq(buf, Len(w) + 1, Len(buf))

SerializeChunk(n) ==
  /\ Truthy(handle)
  /\ LET r == serialize(handle, n)
     IN  /\ handle' = r.h
         /\ buffer' = Store(buffer, r.w)
         /\ out' = out \o SubSeq(Store(buffer, r.w), 1, gcount(r.h))
  /\ UNCHANGED <<protovars, periphvars>>

SerNext == \E n \in ChunkSizes : SerializeChunk(n)

SerSpec == SerInit /\ [][SerNext]_vars

\* the bytes one call with one buffer large enough stores
OneShot(ref) == serialize(NewRequestHandle(ref), BigBuffer).w

----------------------------------------------------------------------------
(* Claims about the serializer, checked under SerSpec *)

\* C1: the bytes taken out over any sequence of buffer sizes are, at every
\* point, the first bytes of what one large enough buffer receives, and all
\* of them once the handle stops
C1_ChunksEqualOneShot ==
  valid(Deref(handle.obj))
    => /\ Len(out) <= Len(OneShot(handle.obj))
       /\ out = SubSeq(OneShot(handle.obj), 1, Len(out))
       /\ ~Truthy(handle) => out = OneShot(handle.obj)

\* C2: once the handle of a valid request stops, the bytes taken out are
\* Method SP URI SP "HTTP/1.1" CRLF GeneralHeaders RequestHeaders
\* EntityHeaders CRLF Body, and for Request{GET, "/x", host "h"} they are
\* "GET /x HTTP/1.1\r\nHost: h\r\n\r\n"
C2_FixedOrder ==
  /\ (valid(Deref(handle.obj)) /\ ~Truthy(handle))
       => out = RequestLayout(Deref(handle.obj))
  /\ (handle.obj = ScenarioA /\ ~Truthy(handle)) => out = ScenarioABytes

\* C3: eof() of the handle of a valid request is true exactly when every
\* byte of the request's serialized form has been taken out
C3_EofIffAllEmitted ==
  valid(Deref(handle.obj))
    => (eof(handle) <=> out = RequestLayout(Deref(handle.obj)))

----------------------------------------------------------------------------
(* The client protocol: WifiClient::Request, wait, read and drop, the      *)
(* data-ready callback, and the HTTPResponsePromise that calls them.       *)

\* GET /x with body "b"
ReqBody == <<<<"G", "E", "T">>, <<"/", "x">>, <<>>, <<>>, <<>>, <<>>, <<"b">>>>

\* GET /x with no body
ReqNoBody == <<<<"G", "E", "T">>, <<"/", "x">>, <<>>, <<>>, <<>>, <<>>, <<>>>>

\* GET /x with Host "h" and body "b": longer than send_buffer_
ReqBig ==
  <<<<"G", "E", "T">>, <<"/", "x">>, <<>>, <<"h">>, <<>>, <<>>, <<"b">>>>

\* a request with no method
ReqNoMethod == <<<<>>, <<"/", "x">>, <<>>, <<>>, <<>>, <<>>, <<"b">>>>

ProtoRequests == {ReqBody, ReqNoBody, ReqBig, ReqNoMethod}

\* what sendCMD_ and readCMD_ can return to Request and drop
SendResults == {OK, "ETIMEDOUT"}
ReadResults == {OK, "ENOTRECOVERABLE"}

\* the error a promise reports for a call on an unattached promise
INVALID_ARGUMENT == "INVALID_ARGUMENT"

\* MBED_ERROR_CODE_INVALID_FORMAT, "Invalid request"
INVALID_FORMAT == "INVALID_FORMAT"

\* the C string that starts at the head of a buffer
CStr(buf) ==
  LET nul == {i \in 1..Len(buf) : buf[i] = NUL}
  IN  IF nul = {} THEN buf
      ELSE SubSeq(buf, 1, (CHOOSE i \in nul : \A j \in nul : i <= j) - 1)

\* while (handle.serialize(buf)) { written_count += handle.gcount();
\*   buf = buf.subspan(handle.gcount()); }
\* size is buf.size(), w the bytes stored from the head of send_buffer_
\* r is what the call of serialize in the loop condition returned
RECURSIVE SerializeLoop(_, _, _, _)
LoopBody(r, size, written_count, w) ==
  IF Truthy(r.h)
    THEN SerializeLoop(r.h, size - gcount(r.h), written_count + gcount(r.h),
                       w \o r.w)
    ELSE [h |-> r.h, written_count |-> written_count, w |-> w \o r.w]

SerializeLoop(h, size, written_count, w) ==
  LoopBody(serialize(h, size), size, written_count, w)

\* the serialize block of Request for each request the threads send
RequestLoop ==
  [r \in ProtoRequests |->
     SerializeLoop(NewRequestHandle(r), SendBufferSize, 0, <<>>)]

\* send_buffer_ after send_buffer_[written_count] = '\0'.  Request stores
\* from the head of the buffer and terminates within what it stored, so
\* what an earlier call left behind the stored bytes is never read.
Terminated(l) ==
  [i \in 1..SendBufferSize |->
     IF i = l.written_count + 1 \/ i > Len(l.w) THEN NUL ELSE l.w[i]]

\* a try_acquire_for that also succeeds when no token is there
try_acquire_without_token(count) == count >= 0

\* rtos::Semaphore::try_acquire_for succeeds when a token is there
try_acquire(count) == count > 0

\* a release that returns no token
release_without_token(count) == count

\* rtos::Semaphore::release
release(count) == count + 1

\* a test_error that forgets req_sem_.release()
test_error_without_release(count, err) == count

\* the lambda test_error of Request: the semaphore count after it
test_error(count, err) == IF err # OK THEN release(count) ELSE count

\* threads inside Request
InRequest(t) == pc[t] \in {"acquire", "send", "register", "assign"}

\* a call returns: Request returns the id of its promise, read the number
\* of bytes, drop nothing (the id it was given is kept)
Return(t, op, req, err, value) ==
  [t |-> t, op |-> op, req |-> req, err |-> err, value |-> value]

\* a thread calls Request(request, response, send_timeout, rcv_callback)
RequestBegin(t, r) ==
  /\ ~halted
  /\ pc[t] = "idle"
  /\ pc' = [pc EXCEPT ![t] = "acquire"]
  /\ treq' = [treq EXCEPT ![t] = r]
  /\ promise' = [promise EXCEPT ![t] = NoPromise]
  /\ UNCHANGED <<req_sem_, request_, sigio, req_id, sent, rx, halted, darg,
                 tret, slots>>
  /\ UNCHANGED <<servars, ids, fired, periphvars>>
  /\ UNCHANGED isr

\* the calls of Request as long as the static req_id stays within MaxReqId
RequestCall(t, r) ==
  /\ req_id >= 0
  /\ req_id + Cardinality({u \in Threads : InRequest(u)}) < MaxReqId
  /\ RequestBegin(t, r)

\* the range of the static int req_id, its width scaled so that the counter
\* can be driven to its largest value
IntMax == MaxReqId

IntMin == -IntMax - 1

\* ++req_id: the next integer; at the largest int the increment overflows,
\* which is undefined for a signed int and may leave any int
Increment(n) == IF n = IntMax THEN IntMin..IntMax ELSE {n + 1}

\* req_sem_.try_acquire_for(send_timeout) returns true
Acquire(t) ==
  /\ ~halted
  /\ pc[t] = "acquire"
  /\ try_acquire(req_sem_)
  /\ req_sem_' = req_sem_ - 1
  /\ slots' = [slots EXCEPT ![t] = @ + 1]
  /\ pc' = [pc EXCEPT ![t] = "send"]
  /\ UNCHANGED <<request_, sigio, req_id, sent, rx, halted, treq, promise,
                 darg, tret>>
  /\ UNCHANGED <<servars, ids, fired, periphvars>>
  /\ UNCHANGED isr

\* req_sem_.try_acquire_for(send_timeout) returns false
AdmissionTimeout(t) ==
  /\ ~halted
  /\ pc[t] = "acquire"
  /\ ~try_acquire(req_sem_)
  /\ promise' = [promise EXCEPT ![t] = [req_id |-> 0, err |-> TIME_OUT]]
  /\ tret' = Return(t, "Request", treq[t], TIME_OUT, 0)
  /\ treq' = [treq EXCEPT ![t] = NoRequest]
  /\ pc' = [pc EXCEPT ![t] = "held"]
  /\ UNCHANGED <<req_sem_, request_, sigio, req_id, sent, rx, halted, darg,
                 slots>>
  /\ UNCHANGED <<servars, ids, fired, periphvars>>
  /\ UNCHANGED isr

\* Request from "serialize request" to the last test_error: the request is
\* serialized into send_buffer_, handed to sendCMD_, and the reply read by
\* readCMD_(fd_, -1, nullptr, send_timeout), which takes every byte waiting
\* l is what the serialize block left, err the first error of the three
\* test_error calls
SendOutcome(t, l, sent_to_transport, err) ==
  /\ sent' = IF sent_to_transport THEN <<CStr(Terminated(l))>> ELSE sent
  /\ rx' = IF sent_to_transport THEN 0 ELSE rx
  /\ req_sem_' = test_error(req_sem_, err)
  /\ slots' = [slots EXCEPT ![t] = @ - (test_error(req_sem_, err) - req_sem_)]
  /\ IF err # OK
       THEN /\ promise' = [promise EXCEPT ![t].err = err]
            /\ tret' = Return(t, "Request", treq[t], err, 0)
            /\ treq' = [treq EXCEPT ![t] = NoRequest]
            /\ pc' = [pc EXCEPT ![t] = "held"]
       ELSE /\ pc' = [pc EXCEPT ![t] = "register"]
            /\ UNCHANGED <<promise, tret, treq>>

SendStep(t, sres, rres, l, serr) ==
  SendOutcome(t, l, serr = OK /\ sres = OK,
              IF serr # OK THEN serr ELSE IF sres # OK THEN sres ELSE rres)

SerializeAndSend(t, sres, rres) ==
  /\ ~halted
  /\ pc[t] = "send"
  /\ SendStep(t, sres, rres, RequestLoop[treq[t]],
              fail(RequestLoop[treq[t]].h))
  /\ UNCHANGED <<request_, sigio, req_id, halted, darg>>
  /\ UNCHANGED <<servars, ids, fired, periphvars>>
  /\ UNCHANGED isr

\* request_.rcv_callback = rcv_callback; serial_.sigio(callback)
Register(t) ==
  /\ ~halted
  /\ pc[t] = "register"
  /\ request_' = [request_ EXCEPT !.rcv_callback = TRUE]
  /\ sigio' = TRUE
  /\ fired' = FALSE
  /\ pc' = [pc EXCEPT ![t] = "assign"]
  /\ UNCHANGED <<req_sem_, req_id, sent, rx, halted, treq, promise, darg,
                 tret, slots>>
  /\ UNCHANGED <<servars, ids, periphvars>>
  /\ UNCHANGED isr

\* PromiseGetReqID(promise) = request_.req_id = ++req_id; return promise
Assign(t) ==
  /\ ~halted
  /\ pc[t] = "assign"
  /\ \E id \in Increment(req_id) :
       /\ req_id' = id
       /\ request_' = [request_ EXCEPT !.req_id = id]
       /\ promise' = [promise EXCEPT ![t].req_id = id]
       /\ tret' = Return(t, "Request", treq[t], promise[t].err, id)
       /\ ids' = ids \cup {id}
  /\ treq' = [treq EXCEPT ![t] = NoRequest]
  /\ pc' = [pc EXCEPT ![t] = "held"]
  /\ UNCHANGED <<req_sem_, sigio, sent, rx, halted, darg, slots>>
  /\ UNCHANGED <<servars, fired, periphvars>>
  /\ UNCHANGED isr

\* a callback that signals the waiting thread before it calls rcv_callback
callback_flag_first(rcv_callback) ==
  <<"flags.set">> \o (IF rcv_callback THEN <<"rcv_callback">> ELSE <<>>)

\* the lambda callback of Request, as the calls it makes in their order:
\* if (request_.rcv_callback) request_.rcv_callback(); request_.flags.set(...)
callback(rcv_callback) ==
  (IF rcv_callback THEN <<"rcv_callback">> ELSE <<>>) \o <<"flags.set">>

\* a callback that also forgets the request as it raises the flag
flags_set_forgetting(r) == [r EXCEPT !.flags = TRUE, !.req_id = 0]

\* request_.flags.set(RB_EVENT_FLAG_NETWORK_PACKET) in the callback
flags_set(r) == [r EXCEPT !.flags = TRUE]

\* a byte arrives on serial_; the installed callback runs in its interrupt:
\* it calls request_.rcv_callback and sets RB_EVENT_FLAG_NETWORK_PACKET
DataReady ==
  /\ ~halted
  /\ rx' = Min(rx + 1, MaxRx)
  /\ request_' = IF sigio THEN flags_set(request_) ELSE request_
  /\ isr' = IF sigio THEN callback(request_.rcv_callback) ELSE isr
  /\ fired' = (sigio \/ fired)
  /\ UNCHANGED <<req_sem_, sigio, req_id, sent, halted, pc, treq, promise,
                 darg, tret, slots>>
  /\ UNCHANGED <<servars, ids, periphvars>>

\* a wait whose expiry also forgets the request: request_.req_id = 0
WaitForgetting(t, timeout) ==
  /\ ~halted
  /\ pc[t] = "held"
  /\ LET id == promise[t].req_id
         err == IF id = 0 THEN INVALID_ARGUMENT
                ELSE IF request_.req_id # id THEN EINVAL
                ELSE IF request_.flags THEN OK
                ELSE TIME_OUT
     IN  /\ id = 0 \/ request_.req_id # id \/ request_.flags \/ timeout > 0
         /\ request_' = IF id # 0 /\ request_.req_id = id
                          THEN [request_ EXCEPT !.flags = FALSE,
                                  !.req_id = IF err = TIME_OUT THEN 0 ELSE @]
                          ELSE request_
         /\ promise' = IF id = 0 THEN promise
                       ELSE [promise EXCEPT ![t].err = err]
         /\ tret' = Return(t, "wait", NoRequest, err, 0)
         /\ isr' = IF id # 0 /\ request_.req_id = id THEN <<>> ELSE isr
  /\ UNCHANGED <<req_sem_, sigio, req_id, sent, rx, halted, pc, treq, darg,
                 slots>>
  /\ UNCHANGED <<servars, ids, fired, periphvars>>

\* HTTPResponsePromise::wait(timeout): WifiClient::wait for an attached
\* promise; flags.wait_any returns at once when the flag is set (and clears
\* it), expires when timeout > 0, and blocks otherwise
Wait(t, timeout) ==
  /\ ~halted
  /\ pc[t] = "held"
  /\ LET id == promise[t].req_id
         err == IF id = 0 THEN INVALID_ARGUMENT
                ELSE IF request_.req_id # id THEN EINVAL
                ELSE IF request_.flags THEN OK
                ELSE TIME_OUT
     IN  /\ id = 0 \/ request_.req_id # id \/ request_.flags \/ timeout > 0
         /\ request_' = IF id # 0 /\ request_.req_id = id
                          THEN [request_ EXCEPT !.flags = FALSE]
                          ELSE request_
         /\ promise' = IF id = 0 THEN promise
                       ELSE [promise EXCEPT ![t].err = err]
         /\ tret' = Return(t, "wait", NoRequest, err, 0)
         /\ isr' = IF id # 0 /\ request_.req_id = id THEN <<>> ELSE isr
  /\ UNCHANGED <<req_sem_, sigio, req_id, sent, rx, halted, pc, treq, darg,
                 slots>>
  /\ UNCHANGED <<servars, ids, fired, periphvars>>

\* readCMD_(fd_, len, buf, 0ms, '\0') as read calls it: the bytes waiting
\* are taken; when they are fewer than len the result is the ETIMEDOUT
\* status, whose value is 0
readCMD_(len, waiting) ==
  LET count == Min(len, waiting)
  IN  IF count < len
        THEN [err |-> "ETIMEDOUT", value |-> 0, taken |-> count]
        ELSE [err |-> OK, value |-> count, taken |-> count]

\* HTTPResponsePromise::read(buffer): WifiClient::read(req, buf)
Read(t, len) ==
  /\ ~halted
  /\ pc[t] = "held"
  /\ LET r == readCMD_(len, rx)
     IN  IF request_.req_id # promise[t].req_id
           THEN /\ tret' = Return(t, "read", NoRequest, EINVAL, 0)
                /\ rx' = rx
           ELSE /\ tret' = IF r.err = TIME_OUT
                             THEN Return(t, "read", NoRequest, OK, r.value)
                             ELSE Return(t, "read", NoRequest, r.err, r.value)
                /\ rx' = rx - r.taken
  /\ UNCHANGED <<req_sem_, request_, sigio, req_id, sent, halted, pc, treq,
                 promise, darg, slots>>
  /\ UNCHANGED <<servars, ids, fired, periphvars>>
  /\ UNCHANGED isr

\* HTTPResponsePromise::drop(): nothing for an unattached promise, else
\* WifiClient::drop(req_id)
PromiseDrop(t) ==
  /\ ~halted
  /\ pc[t] = "held"
  /\ IF promise[t].req_id = 0
       THEN /\ tret' = Return(t, "drop", NoRequest, OK, 0)
            /\ UNCHANGED <<pc, darg>>
       ELSE /\ darg' = [darg EXCEPT ![t] =
                          [req |-> promise[t].req_id, promise |-> TRUE]]
            /\ pc' = [pc EXCEPT ![t] = "drop"]
            /\ UNCHANGED tret
  /\ UNCHANGED <<req_sem_, request_, sigio, req_id, sent, rx, halted, treq,
                 promise, slots>>
  /\ UNCHANGED <<servars, ids, fired, periphvars>>
  /\ UNCHANGED isr

\* a thread that holds no promise calls WifiClient::drop(req)
DirectDrop(t, req) ==
  /\ ~halted
  /\ pc[t] = "idle"
  /\ req_sem_ < MaxSem
  /\ darg' = [darg EXCEPT ![t] = [req |-> req, promise |-> FALSE]]
  /\ pc' = [pc EXCEPT ![t] = "drop"]
  /\ UNCHANGED <<req_sem_, request_, sigio, req_id, sent, rx, halted, treq,
                 promise, tret, slots>>
  /\ UNCHANGED <<servars, ids, fired, periphvars>>
  /\ UNCHANGED isr

\* a thread that holds no promise calls WifiClient::wait(req, timeout);
\* the call returns the id it was given as its value
DirectWait(t, req, timeout) ==
  /\ ~halted
  /\ pc[t] = "idle"
  /\ LET err == IF request_.req_id # req THEN EINVAL
                ELSE IF request_.flags THEN OK
                ELSE TIME_OUT
     IN  /\ request_.req_id # req \/ request_.flags \/ timeout > 0
         /\ request_' = IF request_.req_id = req
                          THEN [request_ EXCEPT !.flags = FALSE]
                          ELSE request_
         /\ isr' = IF request_.req_id = req THEN <<>> ELSE isr
         /\ tret' = Return(t, "WifiClient::wait", NoRequest, err, req)
  /\ UNCHANGED <<req_sem_, sigio, req_id, sent, rx, halted, pc, treq, promise,
                 darg, slots>>
  /\ UNCHANGED <<servars, ids, fired, periphvars>>

\* drop up to request_.req_id = 0: RB_ERROR (mbed_error, which does not
\* return) on a wrong id and on a failed close command; readCMD_(fd_) takes
\* every byte waiting
DropBegin(t, sres, rres) ==
  /\ ~halted
  /\ pc[t] = "drop"
  /\ IF request_.req_id # darg[t].req \/ sres # OK \/ rres # OK
       THEN /\ halted' = TRUE
            /\ UNCHANGED <<request_, rx, pc>>
       ELSE /\ request_' = [request_ EXCEPT !.req_id = 0]
            /\ rx' = 0
            /\ pc' = [pc EXCEPT ![t] = "drop_clear"]
            /\ UNCHANGED halted
  /\ UNCHANGED <<req_sem_, sigio, req_id, sent, treq, promise, darg, tret,
                 slots>>
  /\ UNCHANGED <<servars, ids, fired, periphvars>>
  /\ UNCHANGED isr

\* request_.flags.clear()
DropClear(t) ==
  /\ ~halted
  /\ pc[t] = "drop_clear"
  /\ request_' = [request_ EXCEPT !.flags = FALSE]
  /\ isr' = <<>>
  /\ pc' = [pc EXCEPT ![t] = "drop_unregister"]
  /\ UNCHANGED <<req_sem_, sigio, req_id, sent, rx, halted, treq, promise,
                 darg, tret, slots>>
  /\ UNCHANGED <<servars, ids, fired, periphvars>>

\* serial_.sigio(mbed::Callback<void()>{})
DropUnregister(t) ==
  /\ ~halted
  /\ pc[t] = "drop_unregister"
  /\ sigio' = FALSE
  /\ pc' = [pc EXCEPT ![t] = "drop_release"]
  /\ UNCHANGED <<req_sem_, request_, req_id, sent, rx, halted, treq, promise,
                 darg, tret, slots>>
  /\ UNCHANGED <<servars, ids, fired, periphvars>>
  /\ UNCHANGED isr

\* req_sem_.release() and the return of drop; a promise that called it is
\* unattached from then on
DropRelease(t) ==
  /\ ~halted
  /\ pc[t] = "drop_release"
  /\ req_sem_' = release(req_sem_)
  /\ slots' = [slots EXCEPT ![t] = @ - (release(req_sem_) - req_sem_)]
  /\ tret' = Return(t, "drop", NoRequest, OK, darg[t].req)
  /\ darg' = [darg EXCEPT ![t] = NoDrop]
  /\ IF darg[t].promise
       THEN /\ promise' = [promise EXCEPT ![t].req_id = 0]
            /\ pc' = [pc EXCEPT ![t] = "held"]
       ELSE /\ pc' = [pc EXCEPT ![t] = "idle"]
            /\ UNCHANGED promise
  /\ UNCHANGED <<request_, sigio, req_id, sent, rx, halted, treq>>
  /\ UNCHANGED <<servars, ids, fired, periphvars>>
  /\ UNCHANGED isr

\* ~HTTPResponsePromise of an unattached promise
Destroy(t) ==
  /\ ~halted
  /\ pc[t] = "held"
  /\ promise[t].req_id = 0
  /\ pc' = [pc EXCEPT ![t] = "idle"]
  /\ promise' = [promise EXCEPT ![t] = NoPromise]
  /\ UNCHANGED <<req_sem_, request_, sigio, req_id, sent, rx, halted, treq,
                 darg, tret, slots>>
  /\ UNCHANGED <<servars, ids, fired, periphvars>>
  /\ UNCHANGED isr

----------------------------------------------------------------------------
(* Specifications *)

\* the protocol used through promises only
Init ==
  /\ handle = NewRequestHandle(ScenarioA)
  /\ buffer = <<>>
  /\ out = <<>>
  /\ ProtoInit

ReadLengths == 1..(MaxRx + 1)

Next ==
  \/ \E t \in Threads, r \in ProtoRequests : RequestCall(t, r)
  \/ \E t \in Threads : Acquire(t)
  \/ \E t \in Threads : AdmissionTimeout(t)
  \/ \E t \in Threads, sres \in SendResults, rres \in ReadResults :
       SerializeAndSend(t, sres, rres)
  \/ \E t \in Threads : Register(t)
  \/ \E t \in Threads : Assign(t)
  \/ DataReady
  \/ \E t \in Threads, timeout \in 0..1 : Wait(t, timeout)
  \/ \E t \in Threads, len \in ReadLengths : Read(t, len)
  \/ \E t \in Threads : PromiseDrop(t)
  \/ \E t \in Threads, sres \in SendResults, rres \in ReadResults :
       DropBegin(t, sres, rres)
  \/ \E t \in Threads : DropClear(t)
  \/ \E t \in Threads : DropUnregister(t)
  \/ \E t \in Threads : DropRelease(t)
  \/ \E t \in Threads : Destroy(t)

Spec == Init /\ [][Next]_vars

\* the protocol when WifiClient::drop and WifiClient::wait are also called
\* with an id that no promise of the caller carries
DirectNext ==
  \/ Next
  \/ \E t \in Threads, req \in 0..MaxReqId : DirectDrop(t, req)
  \/ \E t \in Threads, req \in 0..MaxReqId, timeout \in 0..1 :
       DirectWait(t, req, timeout)

DirectSpec == Init /\ [][DirectNext]_vars

\* the protocol with the wake-up of rtos::Semaphore: a thread blocked in
\* try_acquire_for gets a token that stays available
FairSpec ==
  /\ Init
  /\ [][Next]_vars
  /\ \A t \in Threads : WF_vars(Acquire(t))

\* the protocol without a limit on the number of calls of Request, so that
\* the static req_id is incremented at every value of its range
IdNext ==
  \/ \E t \in Threads, r \in ProtoRequests : RequestBegin(t, r)
  \/ \E t \in Threads : Acquire(t)
  \/ \E t \in Threads : AdmissionTimeout(t)
  \/ \E t \in Threads, sres \in SendResults, rres \in ReadResults :
       SerializeAndSend(t, sres, rres)
  \/ \E t \in Threads : Register(t)
  \/ \E t \in Threads : Assign(t)
  \/ DataReady
  \/ \E t \in Threads, timeout \in 0..1 : Wait(t, timeout)
  \/ \E t \in Threads, len \in ReadLengths : Read(t, len)
  \/ \E t \in Threads : PromiseDrop(t)
  \/ \E t \in Threads, sres \in SendResults, rres \in ReadResults :
       DropBegin(t, sres, rres)
  \/ \E t \in Threads : DropClear(t)
  \/ \E t \in Threads : DropUnregister(t)
  \/ \E t \in Threads : DropRelease(t)
  \/ \E t \in Threads : Destroy(t)

IdSpec == Init /\ [][IdNext]_vars

----------------------------------------------------------------------------
(* A caller that calls serialize on a handle of any type, with any buffer  *)
(* size and at any time: after eof, after an error, with an empty buffer.  *)

\* the requests whose handles, and whose parts' handles, are driven
CursorRequests == ProtoRequests \cup {ScenarioA}

\* a handle of each type: the request's, the ones its variant holds
\* (std::string_view, const char*, and the three header bags), and the
\* status code's, for 200 and 404
Cursors ==
  {NewRequestHandle(r) : r \in CursorRequests}
    \cup {NewChild(r, i) : r \in CursorRequests, i \in 0..10}
    \cup {NewStatusCode(<<"2", "0", "0">>), NewStatusCode(<<"4", "0", "4">>)}

\* serialize, eof and fail of whichever type the handle has
AnySerialize(h, n) ==
  IF h.kind = "req" THEN serialize(h, n)
  ELSE IF h.kind = "status" THEN StatusCodeSerialize(h, n)
  ELSE ChildSerialize(h, n)

AnyEof(h) ==
  IF h.kind = "req" THEN eof(h)
  ELSE IF h.kind = "status" THEN StatusCodeEof(h)
  ELSE ChildEof(h)

CursorInit ==
  /\ handle \in Cursors
  /\ buffer = [i \in 1..BigBuffer |-> NUL]
  /\ out = <<>>
  /\ req_sem_ = kMaxRequests
  /\ request_ = [req_id |-> 0, rcv_callback |-> FALSE, flags |-> FALSE]
  /\ sigio = FALSE
  /\ req_id = 0
  /\ sent = <<>>
  /\ rx = 0
  /\ halted = FALSE
  /\ pc = [t \in Threads |-> "idle"]
  /\ treq = [t \in Threads |-> NoRequest]
  /\ promise = [t \in Threads |-> NoPromise]
  /\ darg = [t \in Threads |-> NoDrop]
  /\ tret = NoReturn
  /\ slots = [t \in Threads |-> 0]
  /\ isr = <<>>
  /\ ids = {}
  /\ fired = FALSE
  /\ PeriphInit

BufferSizes == (0..MaxChunk) \cup {BigBuffer}

\* handle.serialize(mbed::Span{buffer, n}); the caller keeps what the call
\* stored; the call is recorded with the size it was given and fail()
CursorSerialize(n) ==
  /\ LET r == AnySerialize(handle, n)
     IN  /\ handle' = r.h
         /\ buffer' = Store(buffer, r.w)
         /\ out' = out \o r.w
         /\ tret' = Return(0, "serialize", NoRequest, r.h.err, n)
  /\ UNCHANGED <<req_sem_, request_, sigio, req_id, sent, rx, halted, pc,
                 treq, promise, darg, slots, isr, ids, fired,
                 periphvars>>

\* HTTPSerializationHandle{obj_}: the handle a constructor makes over the
\* value h refers to
Construct(h) ==
  CASE h.kind = "req" -> NewRequestHandle(h.obj)
    [] h.kind = "hdr" -> NewHeaderHandle(h.bag, h.obj)
    [] h.kind = "cstr" -> NewCStr(h.obj)
    [] h.kind = "sv" -> NewSv(h.obj)
    [] h.kind = "status" -> NewStatusCode(h.obj)

\* an assignment of the base that keeps the error of the handle assigned to
BaseAssignKeepingError(h, o) == [h EXCEPT !.obj = o.obj, !.gcount = 0]

\* HTTPSerializationHandleBase::operator=: the base is destroyed and built
\* again from o.obj_ and o.err_, gcount_ is 0
BaseAssign(h, o) == [h EXCEPT !.obj = o.obj, !.err = o.err, !.gcount = 0]

\* the defaulted operator= of a handle: the base's operator= and then each
\* member of the handle; every member for the two leaves, which have no base
HandleAssign(h, o) ==
  IF h.kind \in {"req", "hdr"}
    THEN [BaseAssign(h, o) EXCEPT !.child_idx = o.child_idx,
                                  !.child = o.child]
  ELSE IF h.kind = "status" THEN [BaseAssign(h, o) EXCEPT !.pos = o.pos]
  ELSE o

\* reset() of every handle: *this = HTTPSerializationHandle{obj_}
AnyReset(h) == HandleAssign(h, Construct(h))

\* operator bool of every handle
AnyTruthy(h) == h.err = OK /\ ~AnyEof(h)

\* while (handle) { handle.serialize(buffer of n bytes); take gcount() bytes }:
\* the bytes of one pass
RECURSIVE Pass(_, _)
Pass(h, n) ==
  IF ~AnyTruthy(h) THEN <<>>
  ELSE LET r == AnySerialize(h, n) IN r.w \o Pass(r.h, n)

\* handle.reset(); the caller clears its buffer and starts a new pass; the
\* call is recorded with the number of bytes the pass before it had emitted
CursorReset ==
  /\ handle' = AnyReset(handle)
  /\ buffer' = [i \in 1..BigBuffer |-> NUL]
  /\ out' = <<>>
  /\ tret' = Return(0, "reset", NoRequest, AnyReset(handle).err, Len(out))
  /\ UNCHANGED <<req_sem_, request_, sigio, req_id, sent, rx, halted, pc,
                 treq, promise, darg, slots, isr, ids, fired,
                 periphvars>>

CursorNext ==
  \/ \E n \in BufferSizes : CursorSerialize(n)
  \/ CursorReset

CursorSpec == CursorInit /\ [][CursorNext]_vars

----------------------------------------------------------------------------
(* Claims about the client protocol *)

\* C4: with capacity 1 no two promises are attached (non-zero id) at once,
\* and while one thread's promise is attached a Request of another thread
\* stays blocked at the semaphore or returns a promise with id 0 and the
\* admission time-out
C4_AdmissionExclusive ==
  /\ [](Cardinality({t \in Threads : promise[t].req_id # 0}) <= 1)
  /\ [][\A t \in Threads :
          (InRequest(t) /\ \E u \in Threads \ {t} : promise[u].req_id # 0)
            => \/ pc'[t] = "acquire"
               \/ /\ pc'[t] = "held"
                  /\ promise'[t] = [req_id |-> 0, err |-> TIME_OUT]]_vars

\* C4, its case: one thread holds an attached promise and the call that
\* returned last is another thread's Request, timed out at admission
C4_SecondRequestTimedOut ==
  \E t, u \in Threads :
    /\ t # u
    /\ pc[u] = "held" /\ promise[u].req_id # 0
    /\ pc[t] = "held" /\ promise[t] = [req_id |-> 0, err |-> TIME_OUT]
    /\ tret.t = t /\ tret.op = "Request" /\ tret.err = TIME_OUT

\* C5: the free slots of the semaphore never exceed the capacity and equal
\* the capacity minus the number of requests in flight (slot acquired, not
\* yet dropped), whatever ids drop is called with
C5_SlotsMatchInFlight ==
  /\ req_sem_ <= kMaxRequests
  /\ req_sem_ = kMaxRequests
                  - Cardinality({t \in Threads :
                                   \/ pc[t] \in {"send", "register", "assign"}
                                   \/ promise[t].req_id # 0})

\* C6: when Request has returned an attached promise, the payload handed to
\* sendCMD_ is the whole serialized form of the request
C6_SentWholeRequest ==
  (tret.op = "Request" /\ tret.err = OK)
    => sent = <<RequestLayout(Deref(tret.req))>>

\* C7: a Request with a valid request whose serialized form fits
\* send_buffer_, that got its slot and whose commands the transport took,
\* returns a promise with a non-zero id and no error
C7_ValidRequestAttaches ==
  (/\ tret.op = "Request"
   /\ valid(Deref(tret.req))
   /\ Len(RequestLayout(Deref(tret.req))) <= SendBufferSize
   /\ tret.err \notin {TIME_OUT, "ETIMEDOUT", "ENOTRECOVERABLE"})
    => tret.err = OK /\ tret.value # 0

\* C8: at the step on which drop returns, the data-ready callback is not
\* installed, the event flag is clear, request_.req_id is 0 and the
\* semaphore has one more free slot
C8_DropLeavesClean ==
  [][\A t \in Threads :
       (pc[t] = "drop_release" /\ pc'[t] # "drop_release")
         => /\ ~sigio'
            /\ ~request_'.flags
            /\ request_'.req_id = 0
            /\ req_sem_' = req_sem_ + 1]_vars

\* C9: a Request that failed has returned a promise with an error and id 0,
\* and the thread holds no slot of the semaphore: what it acquired it has
\* released once
C9_FailedRequestHoldsNothing ==
  \A t \in Threads :
    (tret.t = t /\ tret.op = "Request" /\ tret.err # OK /\ pc[t] = "held")
      => /\ promise[t].err # OK
         /\ promise[t].req_id = 0
         /\ tret.value = 0
         /\ slots[t] = 0

\* C9, its case: the Request that returned last had acquired a slot and
\* failed at sendCMD_; its promise is unattached and the slot is free again
C9_SendFailureReturned ==
  \E t \in Threads :
    /\ tret.t = t /\ tret.op = "Request" /\ tret.err = "ETIMEDOUT"
    /\ pc[t] = "held" /\ promise[t] = [req_id |-> 0, err |-> "ETIMEDOUT"]
    /\ slots[t] = 0 /\ req_sem_ = kMaxRequests

\* C10: a Request with a request that is not valid never acquires a slot or
\* hands anything to sendCMD_, and returns the validation error with id 0
C10_InvalidRequestRejected ==
  /\ \A t \in Threads :
       (treq[t] # NoRequest /\ ~valid(Deref(treq[t])))
         => pc[t] \notin {"send", "register", "assign"}
  /\ (tret.op = "Request" /\ ~valid(Deref(tret.req)))
       => tret.err = INVALID_FORMAT /\ tret.value = 0

\* C11: a Request blocked at the semaphore does not time out while a slot
\* is free, and once drop has returned for an attached promise while a
\* Request is blocked there, a blocked Request gets the slot and goes on to
\* send
C11_BlockedRequestAdmitted ==
  /\ [][\A t \in Threads :
          (pc[t] = "acquire" /\ req_sem_ > 0) => pc'[t] \in {"acquire", "send"}]_vars
  /\ ((\E t \in Threads : pc[t] = "acquire")
        /\ tret.op = "drop" /\ tret.value # 0)
       ~> (\E v \in Threads : pc[v] \in {"send", "register", "assign"})

\* C11, its case: a drop of an attached promise returned last, and a Request
\* of another thread that was at the semaphore now holds the slot and sends
C11_AdmittedAfterDrop ==
  \E t, u \in Threads :
    /\ t # u
    /\ tret.op = "drop" /\ tret.t = u /\ tret.value # 0
    /\ pc[u] = "held" /\ promise[u].req_id = 0
    /\ pc[t] = "send" /\ slots[t] = 1 /\ req_sem_ = 0

\* C12: on the step on which drop returns for an attached promise, whatever
\* was called on the promise before, the promise is unattached, its thread
\* holds no slot and a try_acquire_for of the next Request succeeds at once
C12_DropFreesSlot ==
  [][\A t \in Threads :
       (pc[t] = "drop_release" /\ darg[t].promise /\ pc'[t] # "drop_release")
         => /\ try_acquire(req_sem_')
            /\ promise'[t].req_id = 0
            /\ slots'[t] = 0]_vars

\* C12, its case: drop has returned for a promise that no wait had marked
\* with a time-out, and the slot is free for the next Request
C12_DroppedWithoutUse ==
  \E t \in Threads :
    /\ tret.op = "drop" /\ tret.t = t /\ tret.value # 0
    /\ pc[t] = "held" /\ promise[t] = [req_id |-> 0, err |-> OK]
    /\ slots[t] = 0 /\ req_sem_ = kMaxRequests

\* C13: a read, wait or drop whose id is not request_.req_id returns an
\* error, does not halt the system, and leaves request_, the installed
\* callback and the semaphore as they were
C13_WrongIdLeavesStateAlone ==
  [][/\ \A t \in Threads :
          (pc[t] = "drop" /\ darg[t].req # request_.req_id)
            => /\ ~halted'
               /\ pc'[t] # pc[t]
                    => /\ tret'.t = t /\ tret'.op = "drop" /\ tret'.err # OK
                       /\ UNCHANGED <<request_, sigio, req_sem_>>
     /\ \A t \in Threads :
          (/\ pc[t] = "held" /\ promise[t].req_id # request_.req_id
           /\ tret' # tret /\ tret'.t = t /\ tret'.op \in {"read", "wait"})
            => /\ tret'.err # OK
               /\ UNCHANGED <<request_, sigio, req_sem_, rx>>]_vars

\* C14: a wait called with id 0 returns the error for an invalid id,
\* with another request in flight or with none
C14_UnattachedWaitFails ==
  (tret.op = "WifiClient::wait" /\ tret.value = 0)
    => tret.err # OK /\ tret.err = EINVAL

\* C15: a wait that expired has returned TIME_OUT and changed nothing but
\* the promise's error: the promise keeps its id, which is still
\* request_.req_id, the callback is still installed and the thread still
\* holds its slot
C15_ExpiredWaitStaysAttached ==
  /\ [](\A t \in Threads :
          (tret.op = "wait" /\ tret.t = t /\ tret.err = TIME_OUT
           /\ pc[t] = "held")
            => /\ promise[t].req_id # 0
               /\ promise[t].err = TIME_OUT
               /\ request_.req_id = promise[t].req_id
               /\ sigio
               /\ slots[t] = 1)
  /\ [][\A t \in Threads :
          (tret' # tret /\ tret'.t = t /\ tret'.op = "wait"
           /\ tret'.err = TIME_OUT)
            => /\ UNCHANGED <<request_, sigio, req_sem_, slots>>
               /\ promise'[t].req_id = promise[t].req_id]_vars

\* C15, its case: the wait of an attached promise has expired and the
\* request is still in flight
C15_WaitExpired ==
  \E t \in Threads :
    /\ tret.op = "wait" /\ tret.t = t /\ tret.err = TIME_OUT
    /\ pc[t] = "held" /\ promise[t].req_id # 0
    /\ request_.req_id = promise[t].req_id /\ req_sem_ = 0

\* C16: a read on an attached promise reports success and returns as its
\* value the number of bytes it took from the transport, also when fewer
\* bytes were waiting than the buffer holds
C16_ReadReturnsBytesTaken ==
  [][\A t \in Threads :
       (/\ pc[t] = "held" /\ promise[t].req_id # 0
        /\ promise[t].req_id = request_.req_id
        /\ tret' # tret /\ tret'.t = t /\ tret'.op = "read")
         => /\ tret'.err = OK
            /\ tret'.value = rx - rx']_vars

\* C17: while a Request holds the slot and has not yet handed its bytes to
\* sendCMD_, the data-ready callback is not installed and has not run for
\* it, and the event flag is not set
C17_NoSignalBeforeSent ==
  \A t \in Threads :
    pc[t] = "send" => /\ ~sigio
                      /\ ~request_.flags
                      /\ isr = <<>>

\* C18: each run of the data-ready callback calls the caller's rcv_callback,
\* when there is one, before it sets the event flag, so whenever the flag
\* is set, and whenever a wait is woken by it, the rcv_callback of the run
\* that set it has been called first
C18_CallbackBeforeFlag ==
  /\ [](request_.flags
          => /\ isr # <<>>
             /\ isr[Len(isr)] = "flags.set"
             /\ \A i \in 1..Len(isr) :
                  isr[i] = "flags.set" => i = Len(isr))
  /\ [][(isr' # isr /\ isr' # <<>> /\ request_.rcv_callback)
          => isr' = <<"rcv_callback", "flags.set">>]_vars
  /\ [][\A t \in Threads :
          (tret' # tret /\ tret'.t = t /\ tret'.op = "wait" /\ tret'.err = OK)
            => isr = <<"rcv_callback", "flags.set">>]_vars

\* C18, its case: a wait was woken by the flag that a run of the callback
\* had set for the request in flight
C18_WaitWoken ==
  \E t \in Threads :
    /\ tret.op = "wait" /\ tret.t = t /\ tret.err = OK
    /\ pc[t] = "held" /\ promise[t].req_id # 0
    /\ request_.rcv_callback /\ ~request_.flags /\ rx > 0

----------------------------------------------------------------------------
(* Claims about calls of serialize at eof and with an empty buffer,        *)
(* checked under CursorSpec                                                *)

\* C19: a serialize with a non-empty buffer on a handle of any type that is
\* at eof records ENODATA, stores nothing in the buffer and leaves the
\* handle at eof
C19_SerializeAfterEof ==
  [][(AnyEof(handle) /\ tret'.op = "serialize" /\ tret'.value >= 1)
       => /\ handle'.err = ENODATA
          /\ buffer' = buffer
          /\ out' = out
          /\ AnyEof(handle')]_vars

\* C19, its case: the handle of a request was at eof with all its bytes
\* stored, and a further call with a non-empty buffer has recorded ENODATA
C19_CalledAfterEof ==
  /\ handle.kind = "req" /\ eof(handle) /\ handle.err = ENODATA
  /\ tret.op = "serialize" /\ tret.value >= 1 /\ tret.err = ENODATA
  /\ out = RequestLayout(Deref(handle.obj))

\* C20: a serialize with an empty buffer on a handle of any type that is
\* not at eof records EINVAL, stores nothing, and leaves the position of
\* the handle (its part and the position within the part) where it was
C20_SerializeEmptyBuffer ==
  [][(~AnyEof(handle) /\ tret'.op = "serialize" /\ tret'.value = 0)
       => /\ handle' = [handle EXCEPT !.err = EINVAL]
          /\ buffer' = buffer
          /\ out' = out]_vars

\* C20, its case: a header handle that had stored a part of its bytes was
\* called with an empty buffer and has recorded EINVAL
C20_CalledWithEmptyBuffer ==
  /\ handle.kind = "hdr" /\ ~HeaderEof(handle) /\ handle.err = EINVAL
  /\ tret.op = "serialize" /\ tret.value = 0
  /\ out # <<>>

----------------------------------------------------------------------------
(* Claims about the error a handle keeps and about reset, checked under     *)
(* CursorSpec                                                              *)

\* C21: once a handle of any type has recorded an error, fail() is an error
\* after every later call of serialize, whatever the size of the buffer and
\* whatever the handles of the parts report
C21_FailSticky ==
  [][(fail(handle) # OK /\ tret'.op = "serialize") => fail(handle') # OK]_vars

\* the value the handle refers to serializes to no byte
EmptyValue(h) ==
  CASE h.kind = "req" -> FALSE
    [] h.kind = "hdr" -> HeaderLayout(h.bag, Header(Deref(h.obj), h.bag)) = <<>>
    [] OTHER -> h.obj = <<>>

\* C22: reset() of a handle in any state (in the middle of a part, at eof,
\* failed) leaves it as a handle newly constructed over the same value: a
\* pass after it emits the bytes a pass of a new handle emits, with buffers
\* of any one size, fail() is empty, and eof() is false unless the value is
\* empty
C22_ResetIsFresh ==
  [][tret'.op = "reset" =>
       /\ handle' = Construct(handle)
       /\ \A n \in ChunkSizes : Pass(handle', n) = Pass(Construct(handle), n)
       /\ fail(handle') = OK
       /\ ~EmptyValue(handle) => ~AnyEof(handle')]_vars

\* a request handle was reset after it had emitted bytes
C22_ResetAfterProgress ==
  /\ tret.op = "reset"
  /\ tret.value > 0
  /\ handle.kind = "req"
  /\ handle = NewRequestHandle(handle.obj)
  /\ out = <<>>

----------------------------------------------------------------------------
(* Claims about the bytes one call of serialize stores, checked under       *)
(* CursorSpec                                                              *)

\* C23: a call of serialize on a handle that is neither at eof nor failed,
\* with a buffer of L >= 1 bytes, stores k <= L bytes at the head of the
\* buffer and leaves every byte after them as it was, and k < L only if the
\* handle is at eof after the call
C23_FillsBufferOrEnds ==
  [][(AnyTruthy(handle) /\ tret'.op = "serialize" /\ tret'.value >= 1) =>
       LET L == tret'.value
           k == Len(out') - Len(out)
       IN  /\ k <= L
           /\ \A i \in 1..k : buffer'[i] = out'[Len(out) + i]
           /\ \A i \in (k + 1)..BigBuffer : buffer'[i] = buffer[i]
           /\ k < L => AnyEof(handle')]_vars

----------------------------------------------------------------------------
(* A caller that serializes a header bag, or a request that holds it, with  *)
(* every field of the bag empty but for at most two                         *)

Bags == {"general", "request", "response", "entity"}

\* the names of the fields of a bag; extension_header, the last field of the
\* entity bag, has none
Names(bag) ==
  CASE bag = "request" -> RequestHeaderNames
    [] bag = "response" -> ResponseHeaderNames
    [] bag = "general" -> GeneralHeaderNames
    [] bag = "entity" -> EntityHeaderNames

NumFields(bag) == IF bag = "entity" THEN 11 ELSE Len(Names(bag))

\* the values of a bag with at most two fields set: one to "v", a later one
\* to "w"
BagValues(bag) ==
  {[k \in 1..NumFields(bag) |->
      IF k = p[1] THEN <<"v">> ELSE IF k = p[2] THEN <<"w">> ELSE <<>>] :
     p \in {q \in (0..NumFields(bag)) \X (0..NumFields(bag)) : q[1] <= q[2]}}

\* the objects that hold these bags: GET /x requests with body "b", and
\* responses with status 200
BagObjects(bag) ==
  CASE bag = "general" ->
         {<<<<"G", "E", "T">>, <<"/", "x">>, v, Empty(19), Empty(11), <<"b">>>> :
            v \in BagValues(bag)}
    [] bag = "request" ->
         {<<<<"G", "E", "T">>, <<"/", "x">>, Empty(9), v, Empty(11), <<"b">>>> :
            v \in BagValues(bag)}
    [] bag = "entity" ->
         {<<<<"G", "E", "T">>, <<"/", "x">>, Empty(9), Empty(19), v, <<"b">>>> :
            v \in BagValues(bag)}
    [] bag = "response" ->
         {<<<<"2", "0", "0">>, Empty(9), v, Empty(11), <<>>>> :
            v \in BagValues(bag)}

\* a bag of n fields with field k set to text
OneField(n, k, text) == [j \in 1..n |-> IF j = k THEN text ELSE <<>>]

\* GET /x requests with body "b" and one field set in each of their bags
MixedRequests ==
  {<<<<"G", "E", "T">>, <<"/", "x">>, OneField(9, g, <<"v">>),
     OneField(19, r, <<"w">>), OneField(11, e, <<"u">>), <<"b">>>> :
     g \in {1, 9}, r \in {1, 19}, e \in {1, 11}}

\* a handle of each bag, and a handle of each request
BagCursors ==
  UNION {{NewHeaderHandle(bag, ref) : ref \in BagObjects(bag)} : bag \in Bags}
    \cup UNION {{NewRequestHandle(ref) : ref \in BagObjects(bag)} :
                  bag \in Bags \ {"response"}}
    \cup {NewRequestHandle(ref) : ref \in MixedRequests}

BagInit ==
  /\ handle \in BagCursors
  /\ buffer = [i \in 1..BigBuffer |-> NUL]
  /\ out = <<>>
  /\ req_sem_ = kMaxRequests
  /\ request_ = [req_id |-> 0, rcv_callback |-> FALSE, flags |-> FALSE]
  /\ sigio = FALSE
  /\ req_id = 0
  /\ sent = <<>>
  /\ rx = 0
  /\ halted = FALSE
  /\ pc = [t \in Threads |-> "idle"]
  /\ treq = [t \in Threads |-> NoRequest]
  /\ promise = [t \in Threads |-> NoPromise]
  /\ darg = [t \in Threads |-> NoDrop]
  /\ tret = NoReturn
  /\ slots = [t \in Threads |-> 0]
  /\ isr = <<>>
  /\ ids = {}
  /\ fired = FALSE
  /\ PeriphInit

BagChunks == {MaxChunk, BigBuffer}

\* while (handle) handle.serialize(buffer of n bytes)
BagSerialize(n) ==
  /\ AnyTruthy(handle)
  /\ CursorSerialize(n)

BagNext == \E n \in BagChunks : BagSerialize(n)

BagSpec == BagInit /\ [][BagNext]_vars

----------------------------------------------------------------------------
(* Claims about the fields of a header bag, checked under BagSpec *)

\* p occurs in text
Contains(text, p) ==
  \E i \in 0..(Len(text) - Len(p)) : SubSeq(text, i + 1, i + Len(p)) = p

\* the bags the handle serializes
BagsOf(h) == IF h.kind = "hdr" THEN {h.bag} ELSE {"general", "request", "entity"}

\* what the handle emits for the field k of a bag
Line(bag, obj, k) ==
  IF bag = "entity" /\ k = 11 THEN obj[11] ELSE Labels(bag)[k] \o obj[k]

\* the texts the handle emits besides the separators: the label and value of
\* every field that is not empty and, for a request, the request line and
\* the body
EmittedTexts(h) ==
  LET o == Deref(h.obj)
      lines == UNION {{Line(bag, Header(o, bag), k) :
                         k \in {j \in 1..NumFields(bag) :
                                  Header(o, bag)[j] # <<>>}} :
                        bag \in BagsOf(h)}
  IN  IF h.kind = "req"
        THEN lines \cup {method(o.method) \o SP \o o.uri \o SP \o version,
                         o.message_body}
        ELSE lines

\* C24 as stated: when a field of a header bag is empty, the bytes emitted
\* for the bag, and for a request that holds it, contain no occurrence of
\* the field's name followed by ": "
C24_NoNameOfEmptyField ==
  \A bag \in BagsOf(handle) : \A i \in 1..Len(Names(bag)) :
    Header(Deref(handle.obj), bag)[i] = <<>> =>
      ~Contains(out, Names(bag)[i] \o <<":", " ">>)

\* C24, amended: when a field of a header bag is empty, the bytes emitted for
\* the bag, and for a request that holds it, contain no occurrence of the
\* field's name followed by ": ", provided that text occurs in no label with
\* value of a field that is not empty nor, for a request, in the request
\* line or the body
C24_NoLabelOfEmptyField ==
  \A bag \in BagsOf(handle) : \A i \in 1..Len(Names(bag)) :
    (/\ Header(Deref(handle.obj), bag)[i] = <<>>
     /\ \A t \in EmittedTexts(handle) :
          ~Contains(t, Names(bag)[i] \o <<":", " ">>)) =>
      ~Contains(out, Names(bag)[i] \o <<":", " ">>)

\* a request with Host set and every other field empty has been serialized
\* to its end: Host is in the output, From is not
C24_HostOnlyEmitted ==
  /\ handle.kind = "req"
  /\ eof(handle)
  /\ fail(handle) = OK
  /\ Header(Deref(handle.obj), "request")[8] = <<"v">>
  /\ Header(Deref(handle.obj), "request")[7] = <<>>
  /\ Contains(out, <<"H", "o", "s", "t", ":", " ", "v", CR, LF>>)
  /\ ~Contains(out, <<"F", "r", "o", "m", ":", " ">>)

\* name ": " value CRLF for every field that is not empty, value CRLF for
\* extension_header, from field k on
RECURSIVE Triplets(_, _, _)
Triplets(bag, obj, k) ==
  IF k > NumFields(bag) THEN <<>>
  ELSE (IF obj[k] = <<>> THEN <<>>
        ELSE IF bag = "entity" /\ k = 11 THEN obj[k] \o CRLF
        ELSE Names(bag)[k] \o <<":", " ">> \o obj[k] \o CRLF)
       \o Triplets(bag, obj, k + 1)

\* C25: a header bag serialized to its end has emitted, for every field,
\* whatever the other fields hold, name ": " value CRLF when the value is
\* not empty (value CRLF for extension_header) and nothing when it is empty
C25_FieldTriplets ==
  (handle.kind = "hdr" /\ HeaderEof(handle) /\ fail(handle) = OK) =>
    out = Triplets(handle.bag, Header(Deref(handle.obj), handle.bag), 1)

----------------------------------------------------------------------------
(* Claims about the values of the message model *)

----------------------------------------------------------------------------
(* A caller that constructs methods from tokens and status codes from codes *)
(* and reason phrases, and takes the serialization handle of each           *)

MaxStatusCode == 600

Tokens ==
  {<<>>,
   <<"g", "e", "t">>,
   <<"G", "E", "T">>,
   <<"p", "U", "t">>,
   <<"P", "U", "T">>,
   <<"p", "u", "t">>,
   <<"F", "R", "O", "B">>,
   <<"f", "r", "o", "b">>,
   <<"P", "O", "S", "T">>,
   <<"p", "o", "s", "t">>,
   <<"P", "o", "s", "t">>,
   <<"D", "E", "L", "E", "T", "E">>,
   <<"d", "e", "l", "e", "t", "e">>,
   <<"D", "e", "L", "e", "T", "e">>,
   <<"H", "E", "A", "D">>,
   <<"h", "e", "a", "d">>,
   <<"h", "E", "A", "D">>,
   <<"O", "P", "T", "I", "O", "N", "S">>,
   <<"o", "p", "t", "i", "o", "n", "s">>,
   <<"C", "O", "N", "N", "E", "C", "T">>,
   <<"c", "o", "n", "n", "e", "c", "t">>,
   <<"C", "o", "n", "n", "e", "c", "t">>,
   <<"T", "R", "A", "C", "E">>,
   <<"t", "r", "a", "c", "e">>,
   <<"t", "R", "A", "C", "E">>,
   <<"G", "E">>,
   <<"G", "E", "T", "S">>,
   <<"G">>,
   <<"G", "E", "T", " ">>,
   <<"P", "A", "T", "C", "H">>,
   <<"x">>}

ReasonPhrases == {<<>>, kDefaultReasonPhrase, <<"x">>}

\* the default-constructed HTTPMethod and its handle
ValueInit ==
  /\ handle = NewSv(method(HTTPMethod(<<>>)))
  /\ buffer = [i \in 1..BigBuffer |-> NUL]
  /\ out = <<>>
  /\ req_sem_ = kMaxRequests
  /\ request_ = [req_id |-> 0, rcv_callback |-> FALSE, flags |-> FALSE]
  /\ sigio = FALSE
  /\ req_id = 0
  /\ sent = <<>>
  /\ rx = 0
  /\ halted = FALSE
  /\ pc = [t \in Threads |-> "idle"]
  /\ treq = [t \in Threads |-> NoRequest]
  /\ promise = [t \in Threads |-> NoPromise]
  /\ darg = [t \in Threads |-> NoDrop]
  /\ tret = NoReturn
  /\ slots = [t \in Threads |-> 0]
  /\ isr = <<>>
  /\ ids = {}
  /\ fired = FALSE
  /\ PeriphInit

\* HTTPMethod(token).get_serialization_handle(); the call is recorded with
\* the token and code_
ConstructMethod(token) ==
  /\ handle' = NewSv(method(HTTPMethod(token)))
  /\ tret' = Return(0, "HTTPMethod", token, OK, HTTPMethod(token).code_)
  /\ UNCHANGED <<buffer, out, req_sem_, request_, sigio, req_id, sent, rx,
                 halted, pc, treq, promise, darg, slots, isr, ids, fired,
                 periphvars>>

\* HTTPStatusCode(code, reason_phrase).get_serialization_handle(); the call
\* is recorded with the phrase and the code
ConstructStatusCode(code, reason_phrase) ==
  /\ handle' = NewStatusCode(Digits(HTTPStatusCode(code, reason_phrase).code_))
  /\ tret' = Return(0, "HTTPStatusCode", reason_phrase, OK, code)
  /\ UNCHANGED <<buffer, out, req_sem_, request_, sigio, req_id, sent, rx,
                 halted, pc, treq, promise, darg, slots, isr, ids, fired,
                 periphvars>>

ValueNext ==
  \/ \E token \in Tokens : ConstructMethod(token)
  \/ \E code \in 0..MaxStatusCode, reason_phrase \in ReasonPhrases :
       ConstructStatusCode(code, reason_phrase)

ValueSpec == ValueInit /\ [][ValueNext]_vars

----------------------------------------------------------------------------
(* Claims about methods and status codes, checked under ValueSpec *)

\* the eight standard verbs
Verbs ==
  {<<"C", "O", "N", "N", "E", "C", "T">>,
   <<"D", "E", "L", "E", "T", "E">>,
   <<"G", "E", "T">>,
   <<"H", "E", "A", "D">>,
   <<"O", "P", "T", "I", "O", "N", "S">>,
   <<"P", "O", "S", "T">>,
   <<"P", "U", "T">>,
   <<"T", "R", "A", "C", "E">>}

toupper(c) ==
  IF \E i \in 1..26 : LowerCase[i] = c
    THEN UpperCase[CHOOSE i \in 1..26 : LowerCase[i] = c]
    ELSE c

ToUpper(text) == [i \in 1..Len(text) |-> toupper(text[i])]

\* C27: a method constructed from a token that is one of the eight standard
\* verbs in any case has the verb in upper case as its text ("get" gives
\* "GET", "pUt" gives "PUT"); from any other token that is not empty it is
\* a valid method with the token as its text ("FROB"); from the empty token
\* it is not valid; so it is valid exactly when the token is not empty
C27_MethodFromToken ==
  tret.op = "HTTPMethod" =>
    LET token == tret.req
        m == HTTPMethod(token)
    IN  /\ ToUpper(token) \in Verbs => method(m) = ToUpper(token)
        /\ (token # <<>> /\ ToUpper(token) \notin Verbs) =>
             MethodValid(m) /\ method(m) = token
        /\ token = <<>> => ~MethodValid(m)
        /\ MethodValid(m) <=> token # <<>>
        /\ token = <<"g", "e", "t">> => method(m) = <<"G", "E", "T">>
        /\ token = <<"p", "U", "t">> => method(m) = <<"P", "U", "T">>
        /\ token = <<"F", "R", "O", "B">> =>
             MethodValid(m) /\ method(m) = <<"F", "R", "O", "B">>
        /\ handle.obj = method(m)
        /\ tret.value # 0 <=> MethodValid(m)

\* a method has been constructed from "pUt": its handle serializes "PUT"
C27_PutFromMixedCase ==
  /\ tret.op = "HTTPMethod"
  /\ tret.req = <<"p", "U", "t">>
  /\ tret.value # 0
  /\ handle = NewSv(<<"P", "U", "T">>)

\* the number of the five classes a status code is in
Classes(s) ==
  (IF informational(s) THEN 1 ELSE 0) + (IF success(s) THEN 1 ELSE 0)
    + (IF redirection(s) THEN 1 ELSE 0) + (IF client_error(s) THEN 1 ELSE 0)
    + (IF server_error(s) THEN 1 ELSE 0)

\* C28: at most one of informational(), success(), redirection(),
\* client_error() and server_error() is true of a status code; 200 is a
\* success, 301 is a redirection and not a success
C28_ClassesDisjoint ==
  tret.op = "HTTPStatusCode" =>
    LET s == HTTPStatusCode(tret.value, tret.req)
    IN  /\ Classes(s) <= 1
        /\ s.code_ = 200 => success(s)
        /\ s.code_ = 301 => redirection(s) /\ ~success(s)

----------------------------------------------------------------------------
(* The claim about the ids of requests, checked under IdSpec *)

\* C30: every successful Request stores one and the same non-zero id in
\* request_ and in the promise it returns, and that id differs from the id
\* every earlier successful Request returned, however many there were
C30_FreshRequestId ==
  [][\A t \in Threads :
       (pc[t] = "assign" /\ pc'[t] = "held")
         => /\ tret'.value # 0
            /\ request_'.req_id = tret'.value
            /\ promise'[t].req_id = tret'.value
            /\ tret'.value \notin ids]_vars

----------------------------------------------------------------------------
(* The music player: playMusic in its thread, the DMA controller moving    *)
(* samples to the DAC, and DataCallback_ in the transfer-complete          *)
(* interrupt.  Byte j of the file has the value j.                         *)

FileLengths == 0..MaxFileLen

\* what the protocol and the serializer keep, apart from halted
quietvars ==
  <<handle, buffer, out, req_sem_, request_, sigio, req_id, sent, rx, pc,
    treq, promise, darg, tret, slots, isr, ids, fired, ip_>>

\* buffer[i] = reinterpret_cast<std::uint8_t*>(buffer)[i] << 8
Sample(byte) == byte * 256

\* std::fread(buffer, 1, MUSIC_PLAYER_AUDIO_BUF_BANK_SIZE, fp)
read_ct == Min(BankSize, file.len - file.pos)

\* the bank readBuffer_ leaves: the bytes read, shifted, then zeros
ReadBank ==
  [i \in 1..BankSize |-> IF i <= read_ct THEN Sample(file.pos + i) ELSE 0]

\* readBuffer_(file_info, more, audio_buf[b]) without a read error
readBuffer_(b) ==
  /\ audio_buf' = [audio_buf EXCEPT ![b] = ReadBank]
  /\ file' = [file EXCEPT !.pos = file.pos + read_ct]
  /\ more' = IF read_ct < BankSize THEN FALSE ELSE more

\* error(...): the message is printed and the system stops
error ==
  /\ halted' = TRUE
  /\ UNCHANGED periphvars

\* playMusic(file_name, initial_speed) up to the initial loop; initFile_
\* opens the file or fails
PlayMusic(len, opened) ==
  /\ ~halted
  /\ ppc = "idle"
  /\ IF opened
       THEN /\ file' = [len |-> len, pos |-> 0]
            /\ more' = TRUE
            /\ curr_bank' = 0
            /\ next_bank' = 0
            /\ ppc' = "fill"
            /\ UNCHANGED <<audio_buf, DMA, DACCTRL, signal, transferred,
                           halted>>
       ELSE error
  /\ UNCHANGED quietvars

\* one round of the loop that fills the initial two banks
Fill(ferror) ==
  /\ ~halted
  /\ ppc = "fill"
  /\ IF ferror
       THEN error
       ELSE /\ readBuffer_(next_bank)
            /\ IF next_bank + 1 < kBankCount
                 THEN next_bank' = next_bank + 1 /\ ppc' = "fill"
                 ELSE next_bank' = next_bank /\ ppc' = "setup"
            /\ UNCHANGED <<curr_bank, DMA, DACCTRL, signal, transferred,
                           halted>>
  /\ UNCHANGED quietvars

\* the banks are configured, DMA.Setup(&bank_conf[0]), the DAC is started
\* and DMA.Enable(&bank_conf[0])
Setup(ok) ==
  /\ ~halted
  /\ ppc = "setup"
  /\ IF ok
       THEN /\ DACCTRL' = TRUE
            /\ DMA' = [enabled |-> TRUE, bank |-> 0, count |-> 0]
            /\ ppc' = "wait"
            /\ UNCHANGED <<file, more, curr_bank, next_bank, audio_buf,
                           signal, transferred, halted>>
       ELSE error
  /\ UNCHANGED quietvars

\* the controller moves the next sample of the bank set up to the DAC
Transfer ==
  /\ DMA.enabled
  /\ DACCTRL
  /\ DMA.count < BankSize
  /\ transferred' =
       transferred \cup ({audio_buf[DMA.bank][DMA.count + 1]} \ {0})
  /\ DMA' = [DMA EXCEPT !.count = DMA.count + 1]
  /\ UNCHANGED <<ppc, file, more, curr_bank, next_bank, audio_buf, DACCTRL,
                 signal, halted>>
  /\ UNCHANGED quietvars

\* DataCallback_::operator(), run when the bank set up has been moved
DataCallback_ ==
  /\ DMA.enabled
  /\ DMA.count = BankSize
  /\ curr_bank' = (curr_bank + 1) % kBankCount
  /\ DMA' = [enabled |-> TRUE, bank |-> (curr_bank + 1) % kBankCount,
             count |-> 0]
  /\ signal' = TRUE
  /\ UNCHANGED <<ppc, file, more, next_bank, audio_buf, DACCTRL, transferred,
                 halted>>
  /\ UNCHANGED quietvars

\* osSignalWait(EVENT_FLAG_AUDIO_LOAD, osWaitForever) returns
SignalWait ==
  /\ ~halted
  /\ ppc = "wait"
  /\ signal
  /\ signal' = FALSE
  /\ ppc' = "loop"
  /\ UNCHANGED <<file, more, curr_bank, next_bank, audio_buf, DMA, DACCTRL,
                 transferred, halted>>
  /\ UNCHANGED quietvars

\* while (more): next_bank = (curr_bank - 1 + kBankCount) % kBankCount
Loop ==
  /\ ~halted
  /\ ppc = "loop"
  /\ IF more
       THEN /\ next_bank' = (curr_bank - 1 + kBankCount) % kBankCount
            /\ ppc' = "read"
       ELSE /\ ppc' = "stop"
            /\ UNCHANGED next_bank
  /\ UNCHANGED <<file, more, curr_bank, audio_buf, DMA, DACCTRL, signal,
                 transferred, halted>>
  /\ UNCHANGED quietvars

\* the refill step: readBuffer_(file_info, more, audio_buf[next_bank])
Refill(ferror) ==
  /\ ~halted
  /\ ppc = "read"
  /\ IF ferror
       THEN error
       ELSE /\ readBuffer_(next_bank)
            /\ ppc' = "wait"
            /\ UNCHANGED <<curr_bank, next_bank, DMA, DACCTRL, signal,
                           transferred, halted>>
  /\ UNCHANGED quietvars

\* end2 and end: the DAC is stopped, both channels are disabled, the file
\* is closed, and playMusic returns
Stop ==
  /\ ~halted
  /\ ppc = "stop"
  /\ DACCTRL' = FALSE
  /\ DMA' = [DMA EXCEPT !.enabled = FALSE]
  /\ ppc' = "returned"
  /\ UNCHANGED <<file, more, curr_bank, next_bank, audio_buf, signal,
                 transferred, halted>>
  /\ UNCHANGED quietvars

MusicNext ==
  \/ \E len \in FileLengths, opened \in BOOLEAN : PlayMusic(len, opened)
  \/ \E ferror \in BOOLEAN : Fill(ferror)
  \/ \E ok \in BOOLEAN : Setup(ok)
  \/ Transfer
  \/ DataCallback_
  \/ SignalWait
  \/ Loop
  \/ \E ferror \in BOOLEAN : Refill(ferror)
  \/ Stop

MusicSpec == Init /\ [][MusicNext]_vars

----------------------------------------------------------------------------
(* Claims about the music player, checked under MusicSpec *)

\* C31: playMusic returns only when the music is done: the DAC and the DMA
\* are stopped and every sample it loaded from the file, those of the last,
\* partly filled bank included, has been moved to the DAC
C31_ReturnsAfterAllPlayed ==
  ppc = "returned"
    => /\ ~DACCTRL
       /\ ~DMA.enabled
       /\ \A j \in 1..file.pos : Sample(j) \in transferred

\* C38: the refill step never writes file data into the bank the DMA is set
\* up to play, whenever DataCallback_ runs
C38_RefillAvoidsPlayingBank ==
  [][(ppc = "read" /\ ppc' = "wait" /\ read_ct > 0)
       => ~(DMA.enabled /\ DMA.bank = next_bank)]_vars

----------------------------------------------------------------------------
(* Claims about the data-ready callback and wait, checked under Spec *)

\* C32: a run of the data-ready callback changes nothing of the protocol but
\* the event flag: request_.req_id, request_.rcv_callback, the count of
\* req_sem_ and send_buffer_ are what they were
C32_CallbackTouchesOnlyFlag ==
  [][(sigio /\ pc' = pc /\ tret' = tret /\ rx' = Min(rx + 1, MaxRx)
        /\ isr' = callback(request_.rcv_callback))
       => /\ request_'.req_id = request_.req_id
          /\ request_'.rcv_callback = request_.rcv_callback
          /\ req_sem_' = req_sem_
          /\ sent' = sent]_vars

C32_CallbackRanForRequest ==
  /\ sigio
  /\ request_.req_id # 0
  /\ request_.flags
  /\ isr = callback(request_.rcv_callback)
  /\ req_sem_ = 0

----------------------------------------------------------------------------
(* Claims about the order of the header fields, checked under BagSpec *)

\* the text without its line ends
StripCRLF(text) == SelectSeq(text, LAMBDA c : c \notin {CR, LF})

IsPrefix(a, b) == Len(a) <= Len(b) /\ SubSeq(b, 1, Len(a)) = a

\* the label and value of every field of the bag that is not empty, in
\* declaration order, each once, from field k on
RECURSIVE Lines(_, _, _)
Lines(bag, obj, k) ==
  IF k > NumFields(bag) THEN <<>>
  ELSE (IF obj[k] = <<>> THEN <<>> ELSE Line(bag, obj, k))
       \o Lines(bag, obj, k + 1)

\* C33: a header bag emits its non-empty fields in declaration order, each
\* once, and a request emits its three bags in the order general, request,
\* entity, after the request line and before the CRLF that ends the headers
C33_FieldsInOrder ==
  LET o == Deref(handle.obj)
      ended == AnyEof(handle) /\ handle.err = OK
  IN  /\ handle.kind = "hdr" =>
           LET all == Lines(handle.bag, Header(o, handle.bag), 1)
           IN  /\ IsPrefix(StripCRLF(out), all)
               /\ ended => StripCRLF(out) = all
      /\ handle.kind = "req" =>
           LET first == method(o.method) \o SP \o o.uri \o SP \o version
                          \o CRLF
               headers == Lines("general", o.general_header, 1)
                            \o Lines("request", o.request_header, 1)
                            \o Lines("entity", o.entity_header, 1)
               last == CRLF \o o.message_body
           IN  /\ IsPrefix(StripCRLF(out),
                           StripCRLF(first) \o headers \o o.message_body)
               /\ ended =>
                    /\ Len(out) >= Len(first) + Len(last)
                    /\ SubSeq(out, 1, Len(first)) = first
                    /\ SubSeq(out, Len(out) - Len(last) + 1, Len(out)) = last
                    /\ StripCRLF(SubSeq(out, Len(first) + 1,
                                        Len(out) - Len(last))) = headers

\* a request with a field set in each of its three bags has been serialized
\* to its end, and so has a handle with two fields of one bag set
C33_TwoFieldsEmitted ==
  /\ AnyEof(handle)
  /\ handle.err = OK
  /\ handle.kind = "req"
  /\ handle.obj \in MixedRequests
  /\ Contains(out, <<"v", CR, LF>>)
  /\ Contains(out, <<"w", CR, LF>>)

----------------------------------------------------------------------------
(* The claim about gcount, checked under CursorSpec *)

\* C34: after every call of serialize, gcount() is the number of bytes that
\* call stored; after a call that fails without storing anything (a buffer
\* of size 0, a handle already at its end) it is 0
C34_GcountOfLastCall ==
  [][tret'.op = "serialize" => handle'.gcount = Len(out') - Len(out)]_vars

----------------------------------------------------------------------------
(* wait when the event-flag call of the RTOS fails.  A 32-bit word is the   *)
(* set of the positions of its bits that are 1.                            *)

Word == 0..31

\* a & b
BitAnd(a, b) == a \cap b

\* osFlagsError, 0x80000000
osFlagsError == {31}

\* osFlagsErrorUnknown, 0xFFFFFFFF
osFlagsErrorUnknown == Word

\* osFlagsErrorTimeout, 0xFFFFFFFE
osFlagsErrorTimeout == Word \ {0}

\* osFlagsErrorResource, 0xFFFFFFFD
osFlagsErrorResource == Word \ {1}

\* osFlagsErrorParameter, 0xFFFFFFFC
osFlagsErrorParameter == Word \ {0, 1}

\* osFlagsErrorISR, 0xFFFFFFFA
osFlagsErrorISR == Word \ {0, 2}

\* the failures of wait_any other than the expiry of the timeout
FlagsFailures ==
  {osFlagsErrorUnknown, osFlagsErrorResource, osFlagsErrorParameter,
   osFlagsErrorISR}

RTOS_EVENT_FLAGS_EVENT == "RTOS_EVENT_FLAGS_EVENT"

\* the ErrorStatus WifiClient::wait makes of the result of wait_any
WaitResult(os_ret) ==
  IF BitAnd(os_ret, osFlagsError) # {}
    THEN IF BitAnd(os_ret, osFlagsErrorTimeout) # {}
           THEN TIME_OUT
           ELSE RTOS_EVENT_FLAGS_EVENT
    ELSE OK

\* HTTPResponsePromise::wait(timeout) of an attached promise when wait_any
\* returns os_ret: the flag wait expired or failed; the call is recorded
\* with <<os_ret>>
WaitError(t, os_ret) ==
  /\ ~halted
  /\ pc[t] = "held"
  /\ promise[t].req_id # 0
  /\ request_.req_id = promise[t].req_id
  /\ os_ret = osFlagsErrorTimeout => ~request_.flags
  /\ promise' = [promise EXCEPT ![t].err = WaitResult(os_ret)]
  /\ tret' = Return(t, "wait", <<os_ret>>, WaitResult(os_ret), 0)
  /\ UNCHANGED <<req_sem_, request_, sigio, req_id, sent, rx, halted, pc,
                 treq, darg, slots, isr>>
  /\ UNCHANGED <<servars, ids, fired, periphvars>>

FlagsNext ==
  \/ Next
  \/ \E t \in Threads, os_ret \in FlagsFailures \cup {osFlagsErrorTimeout} :
       WaitError(t, os_ret)

FlagsSpec == Init /\ [][FlagsNext]_vars

----------------------------------------------------------------------------
(* The claim about the errors of wait, checked under FlagsSpec *)

\* C35: wait returns the time-out error only when the wait for the event
\* flag expired; every other failure of the event-flag call is returned as
\* an error that is not the time-out error
C35_TimeoutOnlyWhenExpired ==
  [][\A t \in Threads :
       (tret' # tret /\ tret'.t = t /\ tret'.op = "wait")
         => /\ tret'.err = TIME_OUT
                 => tret'.req \in {NoRequest, <<osFlagsErrorTimeout>>}
            /\ tret'.req \in {<<os_ret>> : os_ret \in FlagsFailures}
                 => tret'.err \notin {OK, TIME_OUT}]_vars

----------------------------------------------------------------------------
(* The claim about which notification a wait answers, checked under Spec *)

\* C36: a wait on a request returns as signalled only if the data-ready
\* callback has run since the Request of that request installed it; a run
\* of the callback during an earlier request, one that raced with the drop
\* of that request included, does not satisfy it
C36_WaitAnswersOwnNotification ==
  [][\A t \in Threads :
       (tret' # tret /\ tret'.t = t /\ tret'.op = "wait" /\ tret'.err = OK)
         => fired]_vars

----------------------------------------------------------------------------
(* HTTPClient::Request(request, response, timeout, data_callback,
   header_callback, rcv_callback), the blocking request of the client base
   class.  registerInputCallback, sendRequest, unregisterInputCallback and
   abort are pure virtual: their results are inputs.  The condition of the
   wait loop is not given by the source and is an input as well. *)

\* osErrorTimeout (-2) compared with the 32-bit os_ret
osErrorTimeout == Word \ {0}

\* the results registerInputCallback and sendRequest can return
CalleeResults == {OK, "ETIMEDOUT"}

\* the values event_flags_.clear and event_flags_.wait_any can return: the
\* flags (none, or EVENT_FLAG_NETWORK_PACKET) or a failure code
FlagsResults == {{}, {0}} \cup FlagsFailures \cup {osErrorTimeout}

\* the labels err2, err1 and err0: abort(), unregisterInputCallback(), and
\* return ErrorStatus{}; the call is recorded with the callee that ended it
\* and that callee's result
err0(t, callee, err) ==
  /\ tret' = Return(t, "HTTPClient::Request", <<callee, err>>, OK, 0)
  /\ pc' = [pc EXCEPT ![t] = "idle"]
  /\ treq' = [treq EXCEPT ![t] = NoRequest]
  /\ UNCHANGED halted

\* a return with an error made in place
ReturnStatus(t, callee, err) ==
  /\ tret' = Return(t, "HTTPClient::Request", <<callee, err>>, err, 0)
  /\ pc' = [pc EXCEPT ![t] = "idle"]
  /\ treq' = [treq EXCEPT ![t] = NoRequest]
  /\ UNCHANGED halted

\* a thread calls HTTPClient::Request(request, ...)
ClientRequest(t, r) ==
  /\ ~halted
  /\ pc[t] = "idle"
  /\ pc' = [pc EXCEPT ![t] = "clear"]
  /\ treq' = [treq EXCEPT ![t] = r]
  /\ UNCHANGED <<req_sem_, request_, sigio, req_id, sent, rx, halted,
                 promise, darg, tret, slots, isr, ids, fired>>
  /\ UNCHANGED <<servars, periphvars>>

\* event_flags_.clear(EVENT_FLAG_NETWORK_PACKET) returns os_ret, then the
\* request is tested
ClientClear(t, os_ret) ==
  /\ ~halted
  /\ pc[t] = "clear"
  /\ IF BitAnd(os_ret, osFlagsError) # {}
       THEN ReturnStatus(t, "clear", RTOS_EVENT_FLAGS_EVENT)
     ELSE IF ~valid(Deref(treq[t]))
       THEN ReturnStatus(t, "request", INVALID_FORMAT)
     ELSE /\ pc' = [pc EXCEPT ![t] = "registerInputCallback"]
          /\ UNCHANGED <<treq, tret, halted>>
  /\ UNCHANGED <<req_sem_, request_, sigio, req_id, sent, rx, promise, darg,
                 slots, isr, ids, fired>>
  /\ UNCHANGED <<servars, periphvars>>

\* registerInputCallback(input_callback) returns err
ClientRegister(t, err) ==
  /\ ~halted
  /\ pc[t] = "registerInputCallback"
  /\ IF err # OK
       THEN err0(t, "registerInputCallback", err)
       ELSE /\ pc' = [pc EXCEPT ![t] = "sendRequest"]
            /\ UNCHANGED <<treq, tret, halted>>
  /\ UNCHANGED <<req_sem_, request_, sigio, req_id, sent, rx, promise, darg,
                 slots, isr, ids, fired>>
  /\ UNCHANGED <<servars, periphvars>>

\* sendRequest(request) returns err
ClientSend(t, err) ==
  /\ ~halted
  /\ pc[t] = "sendRequest"
  /\ IF err # OK
       THEN err0(t, "sendRequest", err)
       ELSE /\ pc' = [pc EXCEPT ![t] = "wait_any"]
            /\ UNCHANGED <<treq, tret, halted>>
  /\ UNCHANGED <<req_sem_, request_, sigio, req_id, sent, rx, promise, darg,
                 slots, isr, ids, fired>>
  /\ UNCHANGED <<servars, periphvars>>

\* one pass of the wait loop: event_flags_.wait_any returns os_ret, and the
\* loop goes round when again holds
ClientWait(t, os_ret, again) ==
  /\ ~halted
  /\ pc[t] = "wait_any"
  /\ IF BitAnd(os_ret, osFlagsError) # {}
       THEN IF os_ret = osErrorTimeout
              THEN err0(t, "wait_any", TIME_OUT)
              ELSE /\ halted' = TRUE
                   /\ UNCHANGED <<pc, treq, tret>>
     ELSE IF again
       THEN UNCHANGED <<pc, treq, tret, halted>>
       ELSE err0(t, "abort", OK)
  /\ UNCHANGED <<req_sem_, request_, sigio, req_id, sent, rx, promise, darg,
                 slots, isr, ids, fired>>
  /\ UNCHANGED <<servars, periphvars>>

ClientNext ==
  \/ \E t \in Threads, r \in ProtoRequests : ClientRequest(t, r)
  \/ \E t \in Threads, os_ret \in FlagsResults : ClientClear(t, os_ret)
  \/ \E t \in Threads, err \in CalleeResults : ClientRegister(t, err)
  \/ \E t \in Threads, err \in CalleeResults : ClientSend(t, err)
  \/ \E t \in Threads, os_ret \in FlagsResults, again \in BOOLEAN :
       ClientWait(t, os_ret, again)

ClientSpec == Init /\ [][ClientNext]_vars

\* C37: the blocking Request returns a failing status whenever
\* registerInputCallback failed, sendRequest failed or the wait for data
\* timed out, and so returns success only when none of these happened
C37_FailureIsReturned ==
  [][\A t \in Threads :
       (tret' # tret /\ tret'.t = t /\ tret'.op = "HTTPClient::Request"
          /\ tret'.req[1] \in {"registerInputCallback", "sendRequest",
                               "wait_any"})
         => tret'.err # OK]_vars

----------------------------------------------------------------------------
(* WifiClient::connect(ssid, phrase) and is_connected().  The results of
   sendCMD_ and readCMD_ and the bytes readCMD_ leaves in ip_buf are
   inputs. *)

\* std::array<char, 32> ip_buf
IpBufSize == 32

\* std::isdigit and std::isspace in the "C" locale
isdigit(c) == c \in {"0", "1", "2", "3", "4", "5", "6", "7", "8", "9"}
isspace(c) == c \in {" ", "HT", LF, "VT", "FF", CR}

\* n digits
RECURSIVE Ones(_)
Ones(n) == IF n = 0 THEN <<>> ELSE <<"1">> \o Ones(n - 1)

\* the groups of digits of lengths lens[i..Len(lens)], separated by "."
RECURSIVE Dotted(_, _)
Dotted(lens, i) ==
  IF i > Len(lens) THEN <<>>
  ELSE Ones(lens[i])
         \o (IF i < Len(lens) THEN <<".">> ELSE <<>>)
         \o Dotted(lens, i + 1)

\* the replies of the module the model tries: four groups of 0 to MaxDigits
\* digits, and three and five groups of one digit, each with and without a
\* space after it
Replies ==
  LET lens == [1..4 -> 0..MaxDigits] \cup {<<1, 1, 1>>, <<1, 1, 1, 1, 1>>}
  IN {Dotted(l, 1) \o term : l \in lens, term \in {<<>>, SP}}

\* ip_buf = {0} after readCMD_ has put the reply into it
IpBuf(reply) ==
  [i \in 1..IpBufSize |-> IF i <= Len(reply) THEN reply[i] ELSE NUL]

\* the lambda verify_ip from buf[i] on: "nullptr", or "&c", the address of
\* the loop's copy of the byte.  On "." the loop continues at once: the
\* statements that follow the continue are not executed
RECURSIVE verify_ip(_, _, _, _)
verify_ip(buf, i, part_count, digit_count) ==
  IF i > Len(buf) THEN "nullptr"
  ELSE LET c == buf[i]
       IN IF part_count = 4 /\ isspace(c) THEN "&c"
          ELSE IF c = "." THEN verify_ip(buf, i + 1, part_count, digit_count)
          ELSE IF ~isdigit(c) THEN "nullptr"
          ELSE IF digit_count + 1 > 3 THEN "nullptr"
          ELSE verify_ip(buf, i + 1, part_count, digit_count + 1)

\* the bytes std::strcpy copies: those before the first NUL
strcpy(src) ==
  LET nul == {i \in 1..Len(src) : src[i] = NUL}
  IN IF nul = {} THEN src
     ELSE SubSeq(src, 1, (CHOOSE i \in nul : \A j \in nul : i <= j) - 1)

\* *end = '\0' through the address of the loop's copy, which no longer
\* exists: ip_buf is left as it is, or some byte of it is overwritten
EndWritten(buf) ==
  {buf} \cup {[buf EXCEPT ![k] = NUL] : k \in 1..Len(buf)}

\* is_connected()
is_connected == ip_ # <<>>

\* connect(ssid, phrase) when sendCMD_ returns send_err, readCMD_ returns
\* read_err and the module replies reply; the call is recorded with the
\* results that were looked at
Connect(send_err, read_err, reply) ==
  /\ ~halted
  /\ IF send_err # OK
       THEN /\ tret' = Return(0, "connect", <<send_err, OK, <<>>>>,
                              send_err, 0)
            /\ ip_' = ip_
     ELSE IF read_err # OK
       THEN /\ tret' = Return(0, "connect", <<OK, read_err, <<>>>>,
                              read_err, 0)
            /\ ip_' = ip_
     ELSE IF verify_ip(IpBuf(reply), 1, 0, 0) = "nullptr"
       THEN /\ tret' = Return(0, "connect", <<OK, OK, reply>>, EINVAL, 0)
            /\ ip_' = ip_
     ELSE /\ tret' = Return(0, "connect", <<OK, OK, reply>>, OK, 0)
          /\ \E buf \in EndWritten(IpBuf(reply)) : ip_' = strcpy(buf)
  /\ UNCHANGED <<req_sem_, request_, sigio, req_id, sent, rx, halted, pc,
                 treq, promise, darg, slots, isr, ids, fired>>
  /\ UNCHANGED <<servars, ppc, file, more, curr_bank, next_bank, audio_buf,
                 DMA, DACCTRL, signal, transferred>>

ConnectNext ==
  \E send_err \in SendResults, read_err \in SendResults, reply \in Replies :
    Connect(send_err, read_err, reply)

ConnectSpec == Init /\ [][ConnectNext]_vars

\* four groups of 1 to 3 digits separated by "." and followed by whitespace
WellFormed(reply) ==
  \E a \in 1..3, b \in 1..3, c \in 1..3, d \in 1..3 :
    LET pattern == Dotted(<<a, b, c, d>>, 1)
        n == Len(pattern)
    IN /\ Len(reply) > n
       /\ \A i \in 1..n :
            IF pattern[i] = "." THEN reply[i] = "." ELSE isdigit(reply[i])
       /\ isspace(reply[n + 1])

\* C39: when the send and the read succeed and the reply is a well-formed
\* dotted-quad address followed by whitespace, connect returns success and
\* is_connected() is true afterwards; connect returns the "Invalid IP
\* address" error only for replies that are not of that form
C39_ConnectAcceptsDottedQuad ==
  [][(tret' # tret /\ tret'.op = "connect"
        /\ tret'.req[1] = OK /\ tret'.req[2] = OK)
       => /\ WellFormed(tret'.req[3])
               => tret'.err = OK /\ is_connected'
          /\ tret'.err = EINVAL => ~WellFormed(tret'.req[3])]_vars

=============================================================================
